---- MODULE Spec2Model ----
(***************************************************************************)
(* Lighting controller of the earth globe (earth/modules/lighting-system.js)*)
(* with the sun-position calculator it calls (sun-calculator.js, whose text *)
(* sits at the end of src/earth/modules/earth-material.js).                 *)
(*                                                                          *)
(* Numbers.  JavaScript numbers are doubles; here                           *)
(*   - a Date's time value is an integer number of milliseconds since the   *)
(*     Unix epoch (what Date holds after TimeClip),                         *)
(*   - a deltaTime is an integer number of quarter milliseconds, so that    *)
(*     deltaTime * 1000 * timeSpeed can be a fraction of a millisecond,     *)
(*   - an angle is an integer number of millidegrees,                       *)
(*   - a sine, cosine or vector component is an integer number of 1/Scale.  *)
(* sun.position is kept in units of sunDistance / Scale, i.e. as the        *)
(* direction the code multiplies by sunDistance.                            *)
(* Instants lie within 24 days of the epoch, on both sides of it, so that   *)
(* every intermediate value fits TLC's 32-bit integers; invalid Dates (NaN, *)
(* or beyond TimeClip's range of 8.64e15 ms) are not modelled.              *)
(*                                                                          *)
(* Date objects.  this.currentDate is a reference: updateSunPosition(date)  *)
(* stores the caller's object and getTimeInfo() hands the clock's object    *)
(* out, so the heap holds two objects, the clock's and the caller's, which  *)
(* may be one and the same.                                                 *)
(*                                                                          *)
(* Four further components share the module, each with a specification of  *)
(* its own over the same variables:                                         *)
(*   - MaterialSpec: the earth, atmosphere and fallback materials of        *)
(*     src/unnamed/part_000 with their clones; a uniform is a cell of a     *)
(*     heap, so that two materials can hold one and the same uniform object;*)
(*   - LoaderSpec: loadEarthTexturesWithFallback of texture-loader.js and   *)
(*     the three loads it starts, which end in any order;                   *)
(*   - ShaderSpec: the surface haze of the earth fragment shader, in fixed  *)
(*     point: lengths in kilometers, hazeFalloff in meters, the other haze  *)
(*     uniforms in hundredths, the haze in 1/Scale.                         *)
(*   - ShellSpec: the fragment shader of the atmosphere shell, in the same  *)
(*     fixed point, heightFade in meters.                                   *)
(***************************************************************************)
EXTENDS Integers, Sequences, FiniteSets, TLC

\* ------------------------------------------------------------------ bounds

\* Number of operations in a run.
MaxSteps == 3

\* Number of material operations (clone, map, update, draw) in a run.
MaxMaterialSteps == 3

\* Number of calls of loadEarthTexturesWithFallback in a run.
MaxCalls == 2

\* Number of uniform changes, camera moves and shaded fragments in a run.
MaxShaderSteps == 3

\* Number of halo uniform changes and shaded shell fragments in a run.
MaxShellSteps == 3

\* ------------------------------------------------------- fixed-point layer

Scale == 10 ^ 4
Turn == 360 * 1000
HalfTurn == 180 * 1000
QuarterTurn == 90 * 1000
\* deltaTime is counted in 1/TicksPerMs milliseconds
TicksPerMs == 2 * 2
MsPerDay == 86400000
MsPerMinute == 60 * 1000
\* toDays is counted in 1/DayUnits days
DayUnits == 10 ^ 5

Abs(a) == IF a < 0 THEN -a ELSE a

Sign(a) == IF a < 0 THEN -1 ELSE IF a > 0 THEN 1 ELSE 0

\* a / b rounded to the nearest integer, b > 0
RDiv(a, b) == IF a >= 0 THEN (2 * a + b) \div (2 * b) ELSE -((2 * (-a) + b) \div (2 * b))

\* Scale * sin(k degrees), k = 0 .. 90, at index k + 1
SinTable ==
  << 0, 175, 349, 523, 698, 872, 1045, 1219, 1392, 1564, 1736, 1908, 2079, 2250, 2419, 2588,
     2756, 2924, 3090, 3256, 3420, 3584, 3746, 3907, 4067, 4226, 4384, 4540, 4695, 4848, 5000,
     5150, 5299, 5446, 5592, 5736, 5878, 6018, 6157, 6293, 6428, 6561, 6691, 6820, 6947, 7071,
     7193, 7314, 7431, 7547, 7660, 7771, 7880, 7986, 8090, 8192, 8290, 8387, 8480, 8572, 8660,
     8746, 8829, 8910, 8988, 9063, 9135, 9205, 9272, 9336, 9397, 9455, 9511, 9563, 9613, 9659,
     9703, 9744, 9781, 9816, 9848, 9877, 9903, 9925, 9945, 9962, 9976, 9986, 9994, 9998,
     10000 >>

\* Scale * sin(k degrees) for k in 0 .. 90
SinDeg(k) == SinTable[k + 1]

\* Scale * cos(k degrees) for k in 0 .. 90
CosDeg(k) == SinTable[91 - k]

\* Scale * sin of r millidegrees, 0 <= r <= QuarterTurn (linear between whole degrees)
SinQ(r) ==
  LET k == r \div 1000
      f == r % 1000
  IN  IF f = 0 THEN SinDeg(k)
      ELSE SinDeg(k) + RDiv((SinDeg(k + 1) - SinDeg(k)) * f, 1000)

\* Math.sin: Scale * sin of a millidegrees
Sin(a) ==
  LET r == a % Turn
  IN  IF r <= QuarterTurn THEN SinQ(r)
      ELSE IF r <= HalfTurn THEN SinQ(HalfTurn - r)
      ELSE IF r <= HalfTurn + QuarterTurn THEN -SinQ(r - HalfTurn)
      ELSE -SinQ(Turn - r)

\* Math.cos
Cos(a) == Sin(a + QuarterTurn)

\* Math.tan, for cos(a) # 0
Tan(a) == RDiv(Sin(a) * Scale, Abs(Cos(a))) * Sign(Cos(a))

\* the last whole degree k in lo .. hi with SinDeg(k) <= v   (SinDeg(lo) <= v)
RECURSIVE AsinDeg(_, _, _)
AsinDeg(v, lo, hi) ==
  IF lo = hi THEN lo
  ELSE LET mid == (lo + hi + 1) \div 2
       IN  IF SinDeg(mid) <= v THEN AsinDeg(v, mid, hi) ELSE AsinDeg(v, lo, mid - 1)

\* Math.asin of v / Scale, in millidegrees (the inverse of SinQ on 0 .. Scale)
AsinQ(v) ==
  LET k == AsinDeg(v, 0, 90)
  IN  IF k = 90 THEN QuarterTurn
      ELSE 1000 * k + RDiv((v - SinDeg(k)) * 1000, SinDeg(k + 1) - SinDeg(k))

\* Math.asin: outside -1 .. 1 the code would get NaN; the fixed-point layer
\* saturates the last unit of rounding instead
Asin(v) ==
  LET c == IF v > Scale THEN Scale ELSE IF v < -Scale THEN -Scale ELSE v
  IN  IF c >= 0 THEN AsinQ(c) ELSE -AsinQ(-c)

\* the last whole degree k in lo .. hi with tan(k degrees) <= y / x   (x, y >= 0)
RECURSIVE AtanDeg(_, _, _, _)
AtanDeg(y, x, lo, hi) ==
  IF lo = hi THEN lo
  ELSE LET mid == (lo + hi + 1) \div 2
       IN  IF SinDeg(mid) * x <= CosDeg(mid) * y
           THEN AtanDeg(y, x, mid, hi) ELSE AtanDeg(y, x, lo, mid - 1)

\* atan(y / x) in millidegrees for x, y >= 0, not both 0
AtanQ(y, x) ==
  LET k == AtanDeg(y, x, 0, 90)
  IN  IF k = 90 THEN QuarterTurn
      ELSE LET num == CosDeg(k) * y - SinDeg(k) * x
               den == (SinDeg(k + 1) - SinDeg(k)) * x + (CosDeg(k) - CosDeg(k + 1)) * y
           IN  1000 * k + (IF den < 8 THEN 0 ELSE RDiv(num * 250, RDiv(den, 4)))

\* Math.atan2(y, x), in millidegrees, in -HalfTurn .. HalfTurn
Atan2(y, x) ==
  IF x = 0 /\ y = 0 THEN 0
  ELSE LET b == AtanQ(Abs(y), Abs(x))
       IN  IF x >= 0 THEN Sign(y) * b
           ELSE IF y >= 0 THEN HalfTurn - b ELSE -(HalfTurn - b)

\* integer square root by bisection: the largest s in lo .. hi with s * s <= n
RECURSIVE SqrtIn(_, _, _)
SqrtIn(n, lo, hi) ==
  IF lo = hi THEN lo
  ELSE LET mid == (lo + hi + 1) \div 2
       IN  IF mid * mid <= n THEN SqrtIn(n, mid, hi) ELSE SqrtIn(n, lo, mid - 1)

\* Math.sqrt, rounded to the nearest integer (n < 2^30)
Sqrt(n) ==
  LET s == SqrtIn(n, 0, 2 ^ 15)
  IN  IF n - s * s > s THEN s + 1 ELSE s

\* THREE.Vector3.normalize(): divideScalar(length() || 1)
Normalize(v) ==
  LET len == Sqrt(v[1] * v[1] + v[2] * v[2] + v[3] * v[3])
      d == IF len = 0 THEN Scale ELSE len
  IN  << RDiv(v[1] * Scale, d), RDiv(v[2] * Scale, d), RDiv(v[3] * Scale, d) >>

\* --------------------------------------------------------- sun-calculator.js

\* Earth's axial tilt, 23.4397 degrees, in millidegrees
EARTH_OBLIQUITY == 23440
J1970 == 2440588
J2000 == 2451545

\* toDays(date) = date.valueOf() / 86400000 - 0.5 + J1970 - J2000, in 1/DayUnits days
toDays(date) == date \div (MsPerDay \div DayUnits) - DayUnits \div 2 + (J1970 - J2000) * DayUnits

\* (357.5291 + 0.98560028 * days) degrees, in millidegrees
solarMeanAnomaly(days) ==
  LET q == days \div DayUnits
      r == days % DayUnits
  IN  357529 + 985 * q + RDiv(60028 * q, 10 ^ 5) + RDiv(9856 * r, 10 ^ 6)

\* (1.9148 sin M + 0.0200 sin 2M + 0.0003 sin 3M) degrees, in millidegrees
equationOfCenter(M) ==
  RDiv(19148 * Sin(M) + 200 * Sin(2 * M) + 3 * Sin(3 * M), 10 ^ 5)

\* M + C + P + pi, with P = 102.9372 degrees
eclipticLongitude(M) == M + equationOfCenter(M) + 102937 + HalfTurn

\* asin(sin L sin e)
solarDeclination(days) ==
  LET L == eclipticLongitude(solarMeanAnomaly(days))
  IN  Asin(RDiv(Sin(L) * Sin(EARTH_OBLIQUITY), Scale))

\* atan2(sin L cos e, cos L)
rightAscension(days) ==
  LET L == eclipticLongitude(solarMeanAnomaly(days))
  IN  Atan2(RDiv(Sin(L) * Cos(EARTH_OBLIQUITY), Scale), Cos(L))

\* (280.16 + 360.9856235 * days) degrees - lng, unreduced: whole turns and the
\* millidegrees left over (the code never reduces this angle)
siderealTime(days, lng) ==
  LET q == days \div DayUnits
      r == days % DayUnits
      a == 280160 + 985 * q + RDiv(6235 * q, 10 ^ 4)
           + RDiv(36 * r, 10) + RDiv(9856 * r, 10 ^ 6) - lng
  IN  [turns |-> q + a \div Turn, mdeg |-> a % Turn]

\* calculateSunPosition, lines 450-466: altitude and azimuth from the latitude phi,
\* the declination dec and the hour angle H
Horizontal(phi, dec, H) ==
  [ altitude |-> Asin(RDiv(Sin(phi) * Sin(dec), Scale)
                      + RDiv(RDiv(Cos(phi) * Cos(dec), Scale) * Cos(H), Scale)),
    azimuth |-> Atan2(Sin(H),
                      RDiv(Cos(H) * Sin(phi), Scale) - RDiv(Tan(dec) * Cos(phi), Scale)),
    declination |-> dec ]

\* calculateSunPosition, lines 445-448: dec, and H = lmst - ra
HorizontalAt(days, phi, lngRad) ==
  Horizontal(phi, solarDeclination(days),
             siderealTime(days, lngRad).mdeg - rightAscension(days))

\* calculateSunPosition(date, lat, lng): lat and lng in whole degrees
calculateSunPosition(date, lat, lng) == HorizontalAt(toDays(date), lat * 1000, -lng * 1000)

\* x, y and z of getSunDirectionVector, lines 485-487
Cartesian(pos) ==
  << RDiv(Cos(pos.altitude) * Sin(pos.azimuth), Scale),
     Sin(pos.altitude),
     RDiv(Cos(pos.altitude) * Cos(pos.azimuth), Scale) >>

\* the vector without the factor cos(altitude) and without normalize()
InvertedDirection_FlatAzimuth(pos) ==
  << -Sin(pos.azimuth), Sin(pos.altitude), -Cos(pos.azimuth) >>

\* getSunDirectionVector, lines 485-490: new THREE.Vector3(-x, y, -z).normalize()
InvertedDirection(pos) ==
  Normalize(<< -RDiv(Cos(pos.altitude) * Sin(pos.azimuth), Scale),
               Sin(pos.altitude),
               -RDiv(Cos(pos.altitude) * Cos(pos.azimuth), Scale) >>)

\* getSunDirectionVector(date, lat, lng)
getSunDirectionVector(date, lat, lng) == InvertedDirection(calculateSunPosition(date, lat, lng))

\* date.getUTCHours() * 60 + date.getUTCMinutes()
UTCMinuteOfDay(date) == (date % MsPerDay) \div MsPerMinute

\* getSimplifiedSunDirection, lines 508-513: direction with declination
TiltedDirection(dec, hourAngle) ==
  Normalize(<< RDiv(Cos(dec) * Sin(hourAngle), Scale),
               Sin(dec),
               RDiv(Cos(dec) * Cos(hourAngle), Scale) >>)

\* getSimplifiedSunDirection(date): hourAngle = (hours / 24) * 2 pi - pi
getSimplifiedSunDirection(date) ==
  TiltedDirection(solarDeclination(toDays(date)),
                  UTCMinuteOfDay(date) * (Turn \div (24 * 60)) - HalfTurn)

\* getSolarNoon, lines 534-541: noon of the date's UTC day plus (ra - lmst) / (2 pi)
\* days, as whole days since the epoch and the milliseconds of that day (the
\* instant can lie thousands of days away); a millidegree is 240 ms
NoonFrom(date, ra, lmst) ==
  [ day |-> date \div MsPerDay - lmst.turns
            + (MsPerDay \div 2 + (ra - lmst.mdeg) * (MsPerDay \div Turn)) \div MsPerDay,
    ms |-> (MsPerDay \div 2 + (ra - lmst.mdeg) * (MsPerDay \div Turn)) % MsPerDay ]

\* getSolarNoon(date, lng), lines 526-543: lng in whole degrees
getSolarNoon(date, lng) ==
  NoonFrom(date, rightAscension(toDays(date)), siderealTime(toDays(date), -lng * 1000))

\* ---------------------------------------------------------- lighting-system.js

\* "now" at construction, and the dates a caller passes:
\* 1969-12-20T06:30:00.000Z and 1970-01-10T12:00:00.000Z
Dates == { -(11 * MsPerDay + 63000000), 9 * MsPerDay + 43200000 }
\* setLocation(lat, lng), whole degrees
Locations == { <<45, 90>>, <<-30, -120>> }
\* setTimeSpeed(speed)
TimeSpeeds == { -1, 0, 1, 60 }
\* update(deltaTime): 0.5 ms and 1 s, in 1/TicksPerMs ms
DeltaTimes == { 2, 1000 * TicksPerMs }
\* setTimeOfDay(hours, minutes)
TimesOfDay == { <<12, 0>>, <<25, -30>> }
\* setIntensity / setAmbientIntensity, in hundredths
Intensities == { 250 }
AmbientIntensities == { 50 }
\* the Date objects alive at one time: the controller's and the caller's
\* longitudes getSolarNoon is asked for
NoonLongitudes == { 0, 90 }

DateIds == { 1, 2 }
\* no Date object
NoDate == 0

VARIABLES
  heap,             \* Date objects: id -> time value in ms
  currentDate,      \* this.currentDate: the id of a Date object
  useSimplified,    \* this.useSimplified
  latitude,         \* this.latitude
  longitude,        \* this.longitude
  timeSpeed,        \* this.timeSpeed
  lastUpdateTime,   \* this.lastUpdateTime
  sunPosition,      \* this.sun.position, in units of sunDistance / Scale
  sunIntensity,     \* this.sun.intensity, in hundredths
  ambientIntensity, \* this.ambient.intensity, in hundredths
  sceneChildren,    \* the objects of this controller that this.scene holds
  callerDate,       \* the Date object the caller holds (passed in, or got from getTimeInfo)
  returned,         \* what the last call returned (<< >>: undefined)
  hist,             \* the last two calls, each with the state it started from
  steps,            \* number of calls so far
  lastRecompute,    \* << >>, or << the instant updateSunPosition last computed the sun for >>
  callerWrote,      \* the caller wrote to the clock's Date object since the last recompute
  cells,            \* the uniform objects { value: ... } of all materials: id -> value
  materials,        \* the materials: id -> kind, uniforms (name -> uniform object id), hooks
  drawn,            \* << >>, or the material last drawn with the sunDirection its shader read
  raised,           \* the last material operation threw a TypeError
  mhist,            \* << >>, or << the last material operation with the state it started from >>
  msteps,           \* number of material operations so far
  loads,            \* the three texture loads of the call: "none", "pending", "loaded", "failed"
  settled,          \* the loads that ended, in the order they ended, each with its outcome
  result,           \* the promise loadEarthTexturesWithFallback returned: state and value
  resolution,       \* the resolution the call was made with
  calls,            \* number of calls of loadEarthTexturesWithFallback so far
  hazeUniforms,     \* atmosphereScale, hazeStrength, hazeFalloff, hazeMax as the shader gets them
  cameraDistance,   \* distance of the camera from the planet's center, in kilometers
  shaded,           \* << >>, or the fragment last shaded: its inputs and its haze
  fsteps,           \* number of uniform changes, camera moves and shaded fragments so far
  haloUniforms,     \* atmosphereScale, haloStrength, haloPower, heightFade of the shell
  shelled,          \* << >>, or the shell fragment last shaded: its inputs and its alpha
  hsteps            \* number of halo uniform changes and shaded shell fragments so far

vars == << heap, currentDate, useSimplified, latitude, longitude, timeSpeed, lastUpdateTime,
           sunPosition, sunIntensity, ambientIntensity, sceneChildren, callerDate, returned,
           hist, steps, lastRecompute, callerWrote,
           cells, materials, drawn, raised, mhist, msteps,
           loads, settled, result, resolution, calls,
           hazeUniforms, cameraDistance, shaded, fsteps,
           haloUniforms, shelled, hsteps >>

\* the fields of the lighting controller, except the sun light's position
clockVars == << heap, currentDate, useSimplified, latitude, longitude, timeSpeed,
                lastUpdateTime, sunIntensity, ambientIntensity, sceneChildren, callerDate,
                returned, hist, steps, lastRecompute, callerWrote >>

\* the materials
materialVars == << cells, materials, drawn, raised, mhist, msteps >>

\* the texture loader
loaderVars == << loads, settled, result, resolution, calls >>

\* the fragment shader's inputs and output
shaderVars == << hazeUniforms, cameraDistance, shaded, fsteps >>

\* the atmosphere shell's fragment shader: its inputs and output
shellVars == << haloUniforms, shelled, hsteps >>

\* this.currentDate.getTime()
Clock == heap[currentDate]

\* the controller's fields and what the caller holds, as one value
Snapshot ==
  [ clock |-> Clock, useSimplified |-> useSimplified, latitude |-> latitude,
    longitude |-> longitude, timeSpeed |-> timeSpeed, lastUpdateTime |-> lastUpdateTime,
    sunPosition |-> sunPosition, sunIntensity |-> sunIntensity,
    ambientIntensity |-> ambientIntensity, sceneChildren |-> sceneChildren,
    aliased |-> (callerDate = currentDate),
    callerTime |-> IF callerDate = NoDate THEN << >> ELSE << heap[callerDate] >> ]

\* hist with one more call; the oldest of three is dropped
Record(op, args) ==
  LET e == [op |-> op, args |-> args, pre |-> Snapshot]
  IN  IF Len(hist) < 2 THEN Append(hist, e) ELSE << hist[2], e >>

\* a Date object id no reference in `used` points to
FreshDate(used) == CHOOSE i \in DateIds : i \notin used

\* the heap with object id set to time, unreferenced objects collected
Store(id, time, refs) ==
  [i \in DateIds |-> IF i = id THEN time ELSE IF i \in refs THEN heap[i] ELSE 0]

\* new Date(value) of a number: TimeClip truncates toward zero.  The number is
\* time + ticks / TicksPerMs
DateOfSum(time, ticks) ==
  LET s == time + ticks \div TicksPerMs
  IN  IF ticks % TicksPerMs = 0 \/ s >= 0 THEN s ELSE s + 1

\* setUTCHours(hours, minutes), which leaves the seconds and milliseconds as they are
SetUTCHours_KeepSeconds(time, hours, minutes) ==
  (time \div MsPerDay) * MsPerDay + (hours * 60 + minutes) * MsPerMinute + (time % MsPerMinute)

\* Date.prototype.setUTCHours(hours, minutes, 0, 0) on a Date holding `time`:
\* MakeDate(Day(t), MakeTime(hours, minutes, 0, 0)), with no range check on the arguments
SetUTCHours(time, hours, minutes) ==
  (time \div MsPerDay) * MsPerDay + (hours * 60 + minutes) * MsPerMinute

\* updateSunPosition whose simplified branch turns the hour angle by the longitude
SunPositionOf_LocalNoon(simplified, time, lat, lng) ==
  IF simplified
  THEN TiltedDirection(solarDeclination(toDays(time)),
                       UTCMinuteOfDay(time) * (Turn \div (24 * 60)) - HalfTurn + lng * 1000)
  ELSE getSunDirectionVector(time, lat, lng)

\* updateSunPosition that always takes the simplified branch
SunPositionOf_IgnoreMode(simplified, time, lat, lng) == getSimplifiedSunDirection(time)

\* updateSunPosition, lines 56-67: the sun position for the mode, clock and location
SunPositionOf(simplified, time, lat, lng) ==
  IF simplified THEN getSimplifiedSunDirection(time)
  ELSE getSunDirectionVector(time, lat, lng)

\* the call is within the run's bound
CanStep == steps < MaxSteps

Init ==
  /\ \E now \in Dates : heap = [i \in DateIds |-> IF i = 1 THEN now ELSE 0]
  /\ currentDate = 1
  /\ useSimplified = TRUE
  /\ latitude = 0
  /\ longitude = 0
  /\ timeSpeed = 0
  /\ lastUpdateTime = 1500
  /\ sunPosition = << 0, 0, Scale >>
  /\ sunIntensity = 400
  /\ ambientIntensity = 15
  /\ sceneChildren = { "Sun", "SunTarget", "AmbientFill" }
  /\ callerDate = NoDate
  /\ returned = << >>
  /\ hist = << >>
  /\ steps = 0
  /\ lastRecompute = << >>
  /\ callerWrote = FALSE

\* updateSunPosition() with no date
UpdateSunPosition ==
  /\ CanStep
  /\ sunPosition' = SunPositionOf(useSimplified, Clock, latitude, longitude)
  /\ lastRecompute' = << Clock >>
  /\ callerWrote' = FALSE
  /\ returned' = << >>
  /\ hist' = Record("updateSunPosition", << >>)
  /\ steps' = steps + 1
  /\ UNCHANGED << materialVars, loaderVars, shaderVars, shellVars >>
  /\ UNCHANGED << heap, currentDate, useSimplified, latitude, longitude, timeSpeed,
                  lastUpdateTime, sunIntensity, ambientIntensity, sceneChildren, callerDate >>

\* d = new Date(time); updateSunPosition(d): the clock becomes the caller's object
UpdateSunPositionDate(time) ==
  /\ CanStep
  /\ LET d == FreshDate({currentDate})
     IN  /\ heap' = Store(d, time, {d})
         /\ currentDate' = d
         /\ callerDate' = d
  /\ sunPosition' = SunPositionOf(useSimplified, time, latitude, longitude)
  /\ lastRecompute' = << time >>
  /\ callerWrote' = FALSE
  /\ returned' = << >>
  /\ hist' = Record("updateSunPosition", << time >>)
  /\ steps' = steps + 1
  /\ UNCHANGED << materialVars, loaderVars, shaderVars, shellVars >>
  /\ UNCHANGED << useSimplified, latitude, longitude, timeSpeed, lastUpdateTime,
                  sunIntensity, ambientIntensity, sceneChildren >>

\* setTimeOfDay(hours, minutes): writes to the clock's Date object in place
SetTimeOfDay(hours, minutes) ==
  /\ CanStep
  /\ LET time == SetUTCHours(Clock, hours, minutes)
     IN  /\ heap' = Store(currentDate, time, {currentDate, callerDate})
         /\ sunPosition' = SunPositionOf(useSimplified, time, latitude, longitude)
         /\ lastRecompute' = << time >>
  /\ callerWrote' = FALSE
  /\ returned' = << >>
  /\ hist' = Record("setTimeOfDay", << hours, minutes >>)
  /\ steps' = steps + 1
  /\ UNCHANGED << materialVars, loaderVars, shaderVars, shellVars >>
  /\ UNCHANGED << currentDate, useSimplified, latitude, longitude, timeSpeed, lastUpdateTime,
                  sunIntensity, ambientIntensity, sceneChildren, callerDate >>

\* setDate without the call of updateSunPosition
SetDate_NoRecompute(time) ==
  /\ CanStep
  /\ LET d == FreshDate({currentDate})
         c == FreshDate({d})
     IN  /\ heap' = [i \in DateIds |-> time]
         /\ callerDate' = d
         /\ currentDate' = c
  /\ returned' = << >>
  /\ hist' = Record("setDate", << time >>)
  /\ steps' = steps + 1
  /\ UNCHANGED << materialVars, loaderVars, shaderVars, shellVars >>
  /\ UNCHANGED << useSimplified, latitude, longitude, timeSpeed, lastUpdateTime, sunPosition,
                  sunIntensity, ambientIntensity, sceneChildren, lastRecompute, callerWrote >>

\* d = new Date(time); setDate(d): the clock becomes a copy, new Date(d)
SetDate(time) ==
  /\ CanStep
  /\ LET d == FreshDate({currentDate})
         c == FreshDate({d})
     IN  /\ heap' = [i \in DateIds |-> time]
         /\ callerDate' = d
         /\ currentDate' = c
  /\ sunPosition' = SunPositionOf(useSimplified, time, latitude, longitude)
  /\ lastRecompute' = << time >>
  /\ callerWrote' = FALSE
  /\ returned' = << >>
  /\ hist' = Record("setDate", << time >>)
  /\ steps' = steps + 1
  /\ UNCHANGED << materialVars, loaderVars, shaderVars, shellVars >>
  /\ UNCHANGED << useSimplified, latitude, longitude, timeSpeed, lastUpdateTime,
                  sunIntensity, ambientIntensity, sceneChildren >>

\* setLocation without the switch to the full calculation
SetLocation_KeepMode(lat, lng) ==
  /\ CanStep
  /\ latitude' = lat
  /\ longitude' = lng
  /\ sunPosition' = SunPositionOf(useSimplified, Clock, lat, lng)
  /\ lastRecompute' = << Clock >>
  /\ callerWrote' = FALSE
  /\ returned' = << >>
  /\ hist' = Record("setLocation", << lat, lng >>)
  /\ steps' = steps + 1
  /\ UNCHANGED << materialVars, loaderVars, shaderVars, shellVars >>
  /\ UNCHANGED << heap, currentDate, useSimplified, timeSpeed, lastUpdateTime, sunIntensity,
                  ambientIntensity, sceneChildren, callerDate >>

\* setLocation(lat, lng)
SetLocation(lat, lng) ==
  /\ CanStep
  /\ latitude' = lat
  /\ longitude' = lng
  /\ useSimplified' = FALSE
  /\ sunPosition' = SunPositionOf(FALSE, Clock, lat, lng)
  /\ lastRecompute' = << Clock >>
  /\ callerWrote' = FALSE
  /\ returned' = << >>
  /\ hist' = Record("setLocation", << lat, lng >>)
  /\ steps' = steps + 1
  /\ UNCHANGED << materialVars, loaderVars, shaderVars, shellVars >>
  /\ UNCHANGED << heap, currentDate, timeSpeed, lastUpdateTime, sunIntensity,
                  ambientIntensity, sceneChildren, callerDate >>

\* setSimplifiedMode that clears the stored location when it enables the simplified mode
SetSimplifiedMode_ResetLocation(enabled) ==
  /\ CanStep
  /\ useSimplified' = enabled
  /\ latitude' = (IF enabled THEN 0 ELSE latitude)
  /\ longitude' = (IF enabled THEN 0 ELSE longitude)
  /\ sunPosition' = SunPositionOf(enabled, Clock, latitude', longitude')
  /\ lastRecompute' = << Clock >>
  /\ callerWrote' = FALSE
  /\ returned' = << >>
  /\ hist' = Record("setSimplifiedMode", << enabled >>)
  /\ steps' = steps + 1
  /\ UNCHANGED << materialVars, loaderVars, shaderVars, shellVars >>
  /\ UNCHANGED << heap, currentDate, timeSpeed, lastUpdateTime, sunIntensity,
                  ambientIntensity, sceneChildren, callerDate >>

\* setSimplifiedMode that only sets the flag and leaves the sun to the next recompute
SetSimplifiedMode_FlagOnly(enabled) ==
  /\ CanStep
  /\ useSimplified' = enabled
  /\ returned' = << >>
  /\ hist' = Record("setSimplifiedMode", << enabled >>)
  /\ steps' = steps + 1
  /\ UNCHANGED << materialVars, loaderVars, shaderVars, shellVars >>
  /\ UNCHANGED << heap, currentDate, latitude, longitude, timeSpeed, lastUpdateTime,
                  sunPosition, sunIntensity, ambientIntensity, sceneChildren, callerDate,
                  lastRecompute, callerWrote >>

\* setSimplifiedMode(enabled)
SetSimplifiedMode(enabled) ==
  /\ CanStep
  /\ useSimplified' = enabled
  /\ sunPosition' = SunPositionOf(enabled, Clock, latitude, longitude)
  /\ lastRecompute' = << Clock >>
  /\ callerWrote' = FALSE
  /\ returned' = << >>
  /\ hist' = Record("setSimplifiedMode", << enabled >>)
  /\ steps' = steps + 1
  /\ UNCHANGED << materialVars, loaderVars, shaderVars, shellVars >>
  /\ UNCHANGED << heap, currentDate, latitude, longitude, timeSpeed, lastUpdateTime,
                  sunIntensity, ambientIntensity, sceneChildren, callerDate >>

\* setTimeSpeed that also calls updateSunPosition
SetTimeSpeed_Recompute(speed) ==
  /\ CanStep
  /\ timeSpeed' = speed
  /\ sunPosition' = SunPositionOf(useSimplified, Clock, latitude, longitude)
  /\ lastRecompute' = << Clock >>
  /\ callerWrote' = FALSE
  /\ returned' = << >>
  /\ hist' = Record("setTimeSpeed", << speed >>)
  /\ steps' = steps + 1
  /\ UNCHANGED << materialVars, loaderVars, shaderVars, shellVars >>
  /\ UNCHANGED << heap, currentDate, useSimplified, latitude, longitude, lastUpdateTime,
                  sunIntensity, ambientIntensity, sceneChildren, callerDate >>

\* setTimeSpeed(speed)
SetTimeSpeed(speed) ==
  /\ CanStep
  /\ timeSpeed' = speed
  /\ returned' = << >>
  /\ hist' = Record("setTimeSpeed", << speed >>)
  /\ steps' = steps + 1
  /\ UNCHANGED << materialVars, loaderVars, shaderVars, shellVars >>
  /\ UNCHANGED << heap, currentDate, useSimplified, latitude, longitude, lastUpdateTime,
                  sunPosition, sunIntensity, ambientIntensity, sceneChildren, callerDate,
                  lastRecompute, callerWrote >>

\* update without the test of timeSpeed
Update_Unguarded(deltaTime) ==
  /\ CanStep
  /\ LET time == DateOfSum(Clock, deltaTime * timeSpeed)
         d == FreshDate({callerDate})
     IN  /\ heap' = Store(d, time, {d, callerDate})
         /\ currentDate' = d
         /\ sunPosition' = SunPositionOf(useSimplified, time, latitude, longitude)
         /\ lastRecompute' = << time >>
         /\ callerWrote' = FALSE
  /\ returned' = << >>
  /\ hist' = Record("update", << deltaTime >>)
  /\ steps' = steps + 1
  /\ UNCHANGED << materialVars, loaderVars, shaderVars, shellVars >>
  /\ UNCHANGED << useSimplified, latitude, longitude, timeSpeed, lastUpdateTime,
                  sunIntensity, ambientIntensity, sceneChildren, callerDate >>

\* update(deltaTime), deltaTime in 1/TicksPerMs ms: millisecondsElapsed is
\* deltaTime * timeSpeed ticks
Update(deltaTime) ==
  /\ CanStep
  /\ IF timeSpeed # 0
     THEN LET time == DateOfSum(Clock, deltaTime * timeSpeed)
              d == FreshDate({callerDate})
          IN  /\ heap' = Store(d, time, {d, callerDate})
              /\ currentDate' = d
              /\ sunPosition' = SunPositionOf(useSimplified, time, latitude, longitude)
              /\ lastRecompute' = << time >>
              /\ callerWrote' = FALSE
     ELSE UNCHANGED << heap, currentDate, sunPosition, lastRecompute, callerWrote >>
  /\ returned' = << >>
  /\ hist' = Record("update", << deltaTime >>)
  /\ steps' = steps + 1
  /\ UNCHANGED << materialVars, loaderVars, shaderVars, shellVars >>
  /\ UNCHANGED << useSimplified, latitude, longitude, timeSpeed, lastUpdateTime,
                  sunIntensity, ambientIntensity, sceneChildren, callerDate >>

\* setIntensity(intensity)
SetIntensity(intensity) ==
  /\ CanStep
  /\ sunIntensity' = intensity
  /\ returned' = << >>
  /\ hist' = Record("setIntensity", << intensity >>)
  /\ steps' = steps + 1
  /\ UNCHANGED << materialVars, loaderVars, shaderVars, shellVars >>
  /\ UNCHANGED << heap, currentDate, useSimplified, latitude, longitude, timeSpeed,
                  lastUpdateTime, sunPosition, ambientIntensity, sceneChildren, callerDate,
                  lastRecompute, callerWrote >>

\* setAmbientIntensity(intensity)
SetAmbientIntensity(intensity) ==
  /\ CanStep
  /\ ambientIntensity' = intensity
  /\ returned' = << >>
  /\ hist' = Record("setAmbientIntensity", << intensity >>)
  /\ steps' = steps + 1
  /\ UNCHANGED << materialVars, loaderVars, shaderVars, shellVars >>
  /\ UNCHANGED << heap, currentDate, useSimplified, latitude, longitude, timeSpeed,
                  lastUpdateTime, sunPosition, sunIntensity, sceneChildren, callerDate,
                  lastRecompute, callerWrote >>

\* getSunDirection(): this.sun.position.clone().normalize()
GetSunDirection ==
  /\ CanStep
  /\ returned' = Normalize(sunPosition)
  /\ hist' = Record("getSunDirection", << >>)
  /\ steps' = steps + 1
  /\ UNCHANGED << materialVars, loaderVars, shaderVars, shellVars >>
  /\ UNCHANGED << heap, currentDate, useSimplified, latitude, longitude, timeSpeed,
                  lastUpdateTime, sunPosition, sunIntensity, ambientIntensity, sceneChildren,
                  callerDate, lastRecompute, callerWrote >>

\* getTimeInfo(): { date: this.currentDate, hours, minutes, timeOfDay }; the
\* caller keeps the Date it is handed, which is the clock's own object
GetTimeInfo ==
  /\ CanStep
  /\ returned' = << UTCMinuteOfDay(Clock) \div 60, UTCMinuteOfDay(Clock) % 60 >>
  /\ callerDate' = currentDate
  /\ heap' = Store(currentDate, Clock, {currentDate})
  /\ hist' = Record("getTimeInfo", << >>)
  /\ steps' = steps + 1
  /\ UNCHANGED << materialVars, loaderVars, shaderVars, shellVars >>
  /\ UNCHANGED << currentDate, useSimplified, latitude, longitude, timeSpeed, lastUpdateTime,
                  sunPosition, sunIntensity, ambientIntensity, sceneChildren,
                  lastRecompute, callerWrote >>

\* the caller asks sun-calculator's getSolarNoon for the clock's instant:
\* getSolarNoon(getTimeInfo().date, lng) copies the Date and leaves it alone
GetSolarNoon(lng) ==
  /\ CanStep
  /\ returned' = getSolarNoon(Clock, lng)
  /\ hist' = Record("getSolarNoon", << lng >>)
  /\ steps' = steps + 1
  /\ UNCHANGED << materialVars, loaderVars, shaderVars, shellVars >>
  /\ UNCHANGED << heap, currentDate, useSimplified, latitude, longitude, timeSpeed,
                  lastUpdateTime, sunPosition, sunIntensity, ambientIntensity, sceneChildren,
                  callerDate, lastRecompute, callerWrote >>

\* dispose() that also stops the clock
Dispose_Stops ==
  /\ CanStep
  /\ sceneChildren' = sceneChildren \ { "Sun", "SunTarget", "AmbientFill" }
  /\ timeSpeed' = 0
  /\ returned' = << >>
  /\ hist' = Record("dispose", << >>)
  /\ steps' = steps + 1
  /\ UNCHANGED << materialVars, loaderVars, shaderVars, shellVars >>
  /\ UNCHANGED << heap, currentDate, useSimplified, latitude, longitude,
                  lastUpdateTime, sunPosition, sunIntensity, ambientIntensity, callerDate,
                  lastRecompute, callerWrote >>

\* dispose()
Dispose ==
  /\ CanStep
  /\ sceneChildren' = sceneChildren \ { "Sun", "SunTarget", "AmbientFill" }
  /\ returned' = << >>
  /\ hist' = Record("dispose", << >>)
  /\ steps' = steps + 1
  /\ UNCHANGED << materialVars, loaderVars, shaderVars, shellVars >>
  /\ UNCHANGED << heap, currentDate, useSimplified, latitude, longitude, timeSpeed,
                  lastUpdateTime, sunPosition, sunIntensity, ambientIntensity, callerDate,
                  lastRecompute, callerWrote >>

\* the caller writes to the Date it holds: d.setTime(time).  No controller code runs
CallerSetTime(time) ==
  /\ CanStep
  /\ callerDate # NoDate
  /\ heap' = [heap EXCEPT ![callerDate] = time]
  /\ callerWrote' = (callerWrote \/ (callerDate = currentDate /\ time # Clock))
  /\ returned' = << >>
  /\ hist' = Record("callerSetTime", << time >>)
  /\ steps' = steps + 1
  /\ UNCHANGED << materialVars, loaderVars, shaderVars, shellVars >>
  /\ UNCHANGED << currentDate, useSimplified, latitude, longitude, timeSpeed, lastUpdateTime,
                  sunPosition, sunIntensity, ambientIntensity, sceneChildren, callerDate,
                  lastRecompute >>

Next ==
  \/ UpdateSunPosition
  \/ \E time \in Dates : UpdateSunPositionDate(time)
  \/ \E t \in TimesOfDay : SetTimeOfDay(t[1], t[2])
  \/ \E time \in Dates : SetDate(time)
  \/ \E l \in Locations : SetLocation(l[1], l[2])
  \/ \E enabled \in BOOLEAN : SetSimplifiedMode(enabled)
  \/ \E speed \in TimeSpeeds : SetTimeSpeed(speed)
  \/ \E deltaTime \in DeltaTimes : Update(deltaTime)
  \/ \E intensity \in Intensities : SetIntensity(intensity)
  \/ \E intensity \in AmbientIntensities : SetAmbientIntensity(intensity)
  \/ GetSunDirection
  \/ GetTimeInfo
  \/ \E lng \in NoonLongitudes : GetSolarNoon(lng)
  \/ Dispose
  \/ \E time \in Dates : CallerSetTime(time)

\* -------------------------------------- earth-material.js (src/unnamed/part_000)

\* new THREE.Vector3(color.r, color.g, color.b) of the colour named c
ColorVector(c) ==
  << [of |-> c, part |-> "r"], [of |-> c, part |-> "g"], [of |-> c, part |-> "b"] >>

\* THREE.Vector3.set(x, y, z) called with one argument: x becomes the argument
\* itself, y becomes undefined, and z, being undefined, is left as it was
Vector3Set(old, x) ==
  << [of |-> x, part |-> "object"], [of |-> "", part |-> "undefined"], old[3] >>

\* the textures passed to createEarthMaterial, and the per-tile imagery (or null)
EarthTextures == [day |-> "day", night |-> "night", bumpRoughnessClouds |-> "bumpRoughnessClouds"]
TileTextures == { "tile", "null", "undefined" }

\* createEarthMaterial's option defaults; numbers in hundredths, hazeFalloff in meters
DefaultOptions ==
  [ atmosphereDayColor |-> "#4db2ff", atmosphereTwilightColor |-> "#bc490b",
    roughnessLow |-> 25, roughnessHigh |-> 35, atmosphereScale |-> 104,
    hazeStrength |-> 85, hazeFalloff |-> 900000, hazeMax |-> 85 ]

\* the uniforms that hold colours
ColorNames == { "atmosphereDayColor", "atmosphereTwilightColor" }

\* the uniforms updateEarthMaterialUniforms can write, in the order it tests them
UpdateOrder ==
  << "atmosphereDayColor", "atmosphereTwilightColor", "roughnessLow", "roughnessHigh",
     "atmosphereScale", "hazeStrength", "hazeFalloff", "hazeMax" >>

\* the updates objects passed to updateEarthMaterialUniforms
Updates ==
  << [atmosphereDayColor |-> "#ff0000"],
     [roughnessLow |-> 10, roughnessHigh |-> 60],
     [hazeStrength |-> 50, hazeMax |-> 40],
     [atmosphereTwilightColor |-> "#ff0000", atmosphereScale |-> 110] >>

\* the instants the lighting controller recomputes the sun light's position for
SunInstants == Dates

\* the material the application builds first: createEarthMaterial(textures, sunLight)
BaseMaterial == 1
\* createAtmosphereMaterial(colors, sunLight)
AtmosphereMaterial == 2
\* createFallbackMaterial()
FallbackMaterial == 3

\* the uniform objects of createEarthMaterial (ids 1 to 14), then of createAtmosphereMaterial
InitialCells ==
  << EarthTextures.day, EarthTextures.night, EarthTextures.bumpRoughnessClouds, "null", 0,
     << 0, 0, 0 >>,
     ColorVector(DefaultOptions.atmosphereDayColor),
     ColorVector(DefaultOptions.atmosphereTwilightColor),
     DefaultOptions.roughnessLow, DefaultOptions.roughnessHigh, DefaultOptions.atmosphereScale,
     DefaultOptions.hazeStrength, DefaultOptions.hazeFalloff, DefaultOptions.hazeMax,
     << 0, 0, 0 >>,
     ColorVector("#4db2ff"), ColorVector("#bc490b"),
     104, 135, 220, 1400000 >>

\* createEarthMaterial, lines 51-67 and 197-220: its uniforms, the onBeforeRender
\* hook, the map property, userData.uniforms and the clone method closing over
\* this material's uniforms
EarthMaterial ==
  [ kind |-> "earth",
    uniforms |-> [ dayTexture |-> 1, nightTexture |-> 2, bumpRoughnessCloudsTexture |-> 3,
                   imageryTexture |-> 4, useImagery |-> 5, sunDirection |-> 6,
                   atmosphereDayColor |-> 7, atmosphereTwilightColor |-> 8,
                   roughnessLow |-> 9, roughnessHigh |-> 10, atmosphereScale |-> 11,
                   hazeStrength |-> 12, hazeFalloff |-> 13, hazeMax |-> 14 ],
    exposed |-> TRUE, hook |-> TRUE, hasMap |-> TRUE, closure |-> BaseMaterial, from |-> 0 ]

\* createAtmosphereMaterial, lines 286-390
AtmosphereShell ==
  [ kind |-> "atmosphere",
    uniforms |-> [ sunDirection |-> 15, atmosphereDayColor |-> 16,
                   atmosphereTwilightColor |-> 17, atmosphereScale |-> 18,
                   haloStrength |-> 19, haloPower |-> 20, heightFade |-> 21 ],
    exposed |-> TRUE, hook |-> TRUE, hasMap |-> FALSE, closure |-> 0, from |-> 0 ]

\* createFallbackMaterial: a MeshStandardMaterial, whose userData has no uniforms
FallbackSurface ==
  [ kind |-> "fallback", uniforms |-> << >>,
    exposed |-> FALSE, hook |-> FALSE, hasMap |-> FALSE, closure |-> 0, from |-> 0 ]

\* the uniforms and materials, as one value
MaterialSnapshot == [cells |-> cells, materials |-> materials, sunPosition |-> sunPosition]

\* the material operation op, with the state it started from
MaterialRecord(op, args) == << [op |-> op, args |-> args, pre |-> MaterialSnapshot] >>

\* the operation is within the run's bound
CanStepMaterial == msteps < MaxMaterialSteps

MaterialInit ==
  /\ cells = InitialCells
  /\ materials = << EarthMaterial, AtmosphereShell, FallbackSurface >>
  /\ drawn = << >>
  /\ raised = FALSE
  /\ mhist = << >>
  /\ msteps = 0

\* LightingSystem.updateSunPosition, lines 64-67, seen from the materials: the sun
\* light they were given gets a new position
SunLightMoves(time) ==
  /\ CanStepMaterial
  /\ sunPosition' = getSimplifiedSunDirection(time)
  /\ raised' = FALSE
  /\ mhist' = MaterialRecord("sunLightMoves", << time >>)
  /\ msteps' = msteps + 1
  /\ UNCHANGED << cells, materials, drawn >>
  /\ UNCHANGED << clockVars, loaderVars, shaderVars, shellVars >>

\* the uniforms a clone gets, lines 224-235; u: the uniforms the clone method closes
\* over, n: the number of uniform objects before the call
ClonedUniforms(u, n) ==
  [ dayTexture |-> n + 1, nightTexture |-> n + 2, bumpRoughnessCloudsTexture |-> n + 3,
    imageryTexture |-> n + 4, useImagery |-> n + 5,
    sunDirection |-> u.sunDirection,
    atmosphereDayColor |-> u.atmosphereDayColor,
    atmosphereTwilightColor |-> u.atmosphereTwilightColor,
    roughnessLow |-> n + 6, roughnessHigh |-> n + 7 ]

\* the uniform objects a clone creates, lines 224-235
ClonedCells(u) ==
  << cells[u.dayTexture], cells[u.nightTexture], cells[u.bumpRoughnessCloudsTexture],
     "null", 0, cells[u.roughnessLow], cells[u.roughnessHigh] >>

\* clone() that gives the clone uniform objects of its own for the sun direction and
\* the atmosphere colours, holding copies of the values
Clone_CopiesShared(m) ==
  /\ CanStepMaterial
  /\ m \in DOMAIN materials
  /\ materials[m].closure # 0
  /\ cells' = cells \o ClonedCells(materials[materials[m].closure].uniforms)
                    \o << cells[materials[materials[m].closure].uniforms.sunDirection],
                          cells[materials[materials[m].closure].uniforms.atmosphereDayColor],
                          cells[materials[materials[m].closure].uniforms.atmosphereTwilightColor] >>
  /\ materials' = Append(materials,
       [ kind |-> "clone",
         uniforms |-> [ClonedUniforms(materials[materials[m].closure].uniforms, Len(cells))
                         EXCEPT !.sunDirection = Len(cells) + 8,
                                !.atmosphereDayColor = Len(cells) + 9,
                                !.atmosphereTwilightColor = Len(cells) + 10],
         exposed |-> TRUE, hook |-> FALSE, hasMap |-> TRUE,
         closure |-> materials[m].closure, from |-> m ])
  /\ raised' = FALSE
  /\ mhist' = MaterialRecord("clone", << m >>)
  /\ msteps' = msteps + 1
  /\ UNCHANGED << drawn, sunPosition >>
  /\ UNCHANGED << clockVars, loaderVars, shaderVars, shellVars >>

\* clone() that hands the clone the imageryTexture and useImagery uniform objects of
\* the material whose clone method runs, as it does for sunDirection
Clone_SharesImagery(m) ==
  /\ CanStepMaterial
  /\ m \in DOMAIN materials
  /\ materials[m].closure # 0
  /\ cells' = cells \o ClonedCells(materials[materials[m].closure].uniforms)
  /\ materials' = Append(materials,
       [ kind |-> "clone",
         uniforms |-> [ClonedUniforms(materials[materials[m].closure].uniforms, Len(cells))
                         EXCEPT !.imageryTexture =
                                  materials[materials[m].closure].uniforms.imageryTexture,
                                !.useImagery =
                                  materials[materials[m].closure].uniforms.useImagery],
         exposed |-> TRUE, hook |-> FALSE, hasMap |-> TRUE,
         closure |-> materials[m].closure, from |-> m ])
  /\ raised' = FALSE
  /\ mhist' = MaterialRecord("clone", << m >>)
  /\ msteps' = msteps + 1
  /\ UNCHANGED << drawn, sunPosition >>
  /\ UNCHANGED << clockVars, loaderVars, shaderVars, shellVars >>

\* material.clone(), lines 223-261, called on material m
Clone(m) ==
  /\ CanStepMaterial
  /\ m \in DOMAIN materials
  /\ materials[m].closure # 0
  /\ cells' = cells \o ClonedCells(materials[materials[m].closure].uniforms)
  /\ materials' = Append(materials,
       [ kind |-> "clone",
         uniforms |-> ClonedUniforms(materials[materials[m].closure].uniforms, Len(cells)),
         exposed |-> TRUE, hook |-> FALSE, hasMap |-> TRUE,
         closure |-> materials[m].closure, from |-> m ])
  /\ raised' = FALSE
  /\ mhist' = MaterialRecord("clone", << m >>)
  /\ msteps' = msteps + 1
  /\ UNCHANGED << drawn, sunPosition >>
  /\ UNCHANGED << clockVars, loaderVars, shaderVars, shellVars >>

\* the map setter that raises useImagery for a texture and never lowers it
SetMap_FlagNotReset(m, texture) ==
  /\ CanStepMaterial
  /\ m \in DOMAIN materials
  /\ materials[m].hasMap
  /\ cells' = [cells EXCEPT ![materials[m].uniforms.imageryTexture] = texture,
                            ![materials[m].uniforms.useImagery] =
                               IF texture \notin { "null", "undefined" } THEN 1 ELSE @]
  /\ raised' = FALSE
  /\ mhist' = MaterialRecord("map", << m, texture >>)
  /\ msteps' = msteps + 1
  /\ UNCHANGED << materials, drawn, sunPosition >>
  /\ UNCHANGED << clockVars, loaderVars, shaderVars, shellVars >>

\* material.map = texture, lines 210-218 and 245-253; null and undefined are falsy
SetMap(m, texture) ==
  /\ CanStepMaterial
  /\ m \in DOMAIN materials
  /\ materials[m].hasMap
  /\ cells' = [cells EXCEPT ![materials[m].uniforms.imageryTexture] = texture,
                            ![materials[m].uniforms.useImagery] =
                               IF texture \notin { "null", "undefined" } THEN 1 ELSE 0]
  /\ raised' = FALSE
  /\ mhist' = MaterialRecord("map", << m, texture >>)
  /\ msteps' = msteps + 1
  /\ UNCHANGED << materials, drawn, sunPosition >>
  /\ UNCHANGED << clockVars, loaderVars, shaderVars, shellVars >>

\* the uniform objects after the renderer has called material m's onBeforeRender:
\* uniforms.sunDirection.value.copy(sunLight.position).normalize(), lines 205-207
\* and 386-388; a material without the hook has the empty one of THREE.Material
BeforeRender(m) ==
  IF materials[m].hook
  THEN [cells EXCEPT ![materials[m].uniforms.sunDirection] = Normalize(sunPosition)]
  ELSE cells

\* the renderer draws an object with material m: onBeforeRender, then the shader
\* reads the uniforms
Render(m) ==
  /\ CanStepMaterial
  /\ m \in DOMAIN materials
  /\ "sunDirection" \in DOMAIN materials[m].uniforms
  /\ cells' = BeforeRender(m)
  /\ drawn' = [material |-> m, sunDirection |-> cells'[materials[m].uniforms.sunDirection]]
  /\ raised' = FALSE
  /\ mhist' = MaterialRecord("render", << m >>)
  /\ msteps' = msteps + 1
  /\ UNCHANGED << materials, sunPosition >>
  /\ UNCHANGED << clockVars, loaderVars, shaderVars, shellVars >>

\* updateEarthMaterialUniforms, lines 409-437, from the i-th test on: c the uniform
\* objects so far, u the material's uniforms.  Writing to a uniform the material
\* does not have is a TypeError, which ends the call
RECURSIVE ApplyUpdates(_, _, _, _)
ApplyUpdates(c, u, updates, i) ==
  IF i > Len(UpdateOrder) THEN [cells |-> c, raised |-> FALSE]
  ELSE IF UpdateOrder[i] \notin DOMAIN updates THEN ApplyUpdates(c, u, updates, i + 1)
  ELSE IF UpdateOrder[i] \notin DOMAIN u THEN [cells |-> c, raised |-> TRUE]
  ELSE ApplyUpdates(
         [c EXCEPT ![u[UpdateOrder[i]]] =
            IF UpdateOrder[i] \in ColorNames
            THEN Vector3Set(c[u[UpdateOrder[i]]], updates[UpdateOrder[i]])
            ELSE updates[UpdateOrder[i]]],
         u, updates, i + 1)

\* updateEarthMaterialUniforms(material, updates), lines 401-438
UpdateEarthMaterialUniforms(m, updates) ==
  /\ CanStepMaterial
  /\ m \in DOMAIN materials
  /\ IF materials[m].exposed
     THEN /\ cells' = ApplyUpdates(cells, materials[m].uniforms, updates, 1).cells
          /\ raised' = ApplyUpdates(cells, materials[m].uniforms, updates, 1).raised
     ELSE UNCHANGED << cells, raised >>
  /\ mhist' = MaterialRecord("updateEarthMaterialUniforms", << m, updates >>)
  /\ msteps' = msteps + 1
  /\ UNCHANGED << materials, drawn, sunPosition >>
  /\ UNCHANGED << clockVars, loaderVars, shaderVars, shellVars >>

MaterialNext ==
  \/ \E time \in SunInstants : SunLightMoves(time)
  \/ \E m \in 1 .. Len(materials) : Clone(m)
  \/ \E m \in 1 .. Len(materials), texture \in TileTextures : SetMap(m, texture)
  \/ \E m \in 1 .. Len(materials) : Render(m)
  \/ \E m \in 1 .. Len(materials), k \in 1 .. Len(Updates) :
       UpdateEarthMaterialUniforms(m, Updates[k])

\* ------------------------------------------------------------ texture-loader.js

\* the three textures loadEarthTextures asks for
TextureKinds == { "day", "night", "bumpRoughnessClouds" }

\* the resolution suffixes of getRecommendedResolution
Resolutions == { "2k", "4096" }

\* loadTexture, lines 17-60: the texture of kind k as the loader hands it over,
\* with the configuration lines 25-33 apply
LoadedTexture(k, res) ==
  [ from |-> "file", name |-> k, resolution |-> res,
    colorSpace |-> IF k = "bumpRoughnessClouds" THEN "linear" ELSE "srgb",
    anisotropy |-> 8 ]

\* loadEarthTextures' result, lines 98-102
LoadedTextures(res) ==
  [ day |-> LoadedTexture("day", res), night |-> LoadedTexture("night", res),
    bumpRoughnessClouds |-> LoadedTexture("bumpRoughnessClouds", res) ]

\* createFallbackTextures, lines 114-151: two canvas textures and a data texture
createFallbackTextures ==
  [ day |-> [from |-> "canvas", name |-> "#4488aa", resolution |-> "512",
             colorSpace |-> "srgb", anisotropy |-> 1],
    night |-> [from |-> "canvas", name |-> "#0a0a0a", resolution |-> "512",
               colorSpace |-> "srgb", anisotropy |-> 1],
    bumpRoughnessClouds |-> [from |-> "data", name |-> "128,180,0", resolution |-> "512",
                             colorSpace |-> "none", anisotropy |-> 1] ]

\* { ...textures, usingFallback }
WithFallbackFlag(textures, flag) ==
  [ day |-> textures.day, night |-> textures.night,
    bumpRoughnessClouds |-> textures.bumpRoughnessClouds, usingFallback |-> flag ]

\* the promise of loadEarthTexturesWithFallback, not yet called
NotCalled == [state |-> "none", value |-> << >>]

\* a promise that is pending
Pending == [state |-> "pending", value |-> << >>]

\* a call is in progress or none has been made, and the bound on calls is not reached
CanCall == result.state # "pending" /\ calls < MaxCalls

LoaderInit ==
  /\ loads = [k \in TextureKinds |-> "none"]
  /\ settled = << >>
  /\ result = NotCalled
  /\ resolution = "4096"
  /\ calls = 0

\* loadEarthTexturesWithFallback(basePath, res) is called: loadEarthTextures starts
\* the three loads (lines 81-94) and both async functions wait
LoadEarthTexturesWithFallback(res) ==
  /\ CanCall
  /\ loads' = [k \in DOMAIN loads |-> "pending"]
  /\ settled' = << >>
  /\ result' = Pending
  /\ resolution' = res
  /\ calls' = calls + 1
  /\ UNCHANGED << sunPosition, clockVars, materialVars, shaderVars, shellVars >>

\* loadEarthTexturesWithFallback without its catch: the rejection goes to the caller
AfterLoad_NoCatch(k, outcome) ==
  IF result.state # "pending" THEN result
  ELSE IF outcome = "failed"
       THEN [state |-> "rejected", value |-> << >>]
       ELSE IF \A j \in DOMAIN loads : j # k => loads[j] = "loaded"
            THEN [state |-> "resolved",
                  value |-> WithFallbackFlag(LoadedTextures(resolution), FALSE)]
            ELSE result

\* a load that succeeds after the call has resolved puts its texture into the
\* result
AfterLoad_LateLoadReplaces(k, outcome) ==
  IF result.state # "pending"
  THEN IF outcome = "loaded" /\ result.state = "resolved"
       THEN [result EXCEPT !.value[k] = LoadedTexture(k, resolution)]
       ELSE result
  ELSE IF outcome = "failed"
       THEN [state |-> "resolved", value |-> WithFallbackFlag(createFallbackTextures, TRUE)]
       ELSE IF \A j \in DOMAIN loads : j # k => loads[j] = "loaded"
            THEN [state |-> "resolved",
                  value |-> WithFallbackFlag(LoadedTextures(resolution), FALSE)]
            ELSE result

\* what the call's promise is after the load of kind k ended with `outcome`.
\* The reactions run as microtasks before the next load event: Promise.all
\* fulfils with the last success and rejects with the first failure, on a
\* rejection loadEarthTextures rethrows (lines 103-106) and
\* loadEarthTexturesWithFallback catches (lines 164-168)
AfterLoad(k, outcome) ==
  IF result.state # "pending" THEN result
  ELSE IF outcome = "failed"
       THEN [state |-> "resolved", value |-> WithFallbackFlag(createFallbackTextures, TRUE)]
       ELSE IF \A j \in DOMAIN loads : j # k => loads[j] = "loaded"
            THEN [state |-> "resolved",
                  value |-> WithFallbackFlag(LoadedTextures(resolution), FALSE)]
            ELSE result

\* the loader's onLoad callback for kind k, lines 23-52, and the reactions it starts
LoadSucceeds(k) ==
  /\ loads[k] = "pending"
  /\ loads' = [loads EXCEPT ![k] = "loaded"]
  /\ settled' = Append(settled, << k, "loaded" >>)
  /\ result' = AfterLoad(k, "loaded")
  /\ UNCHANGED << resolution, calls >>
  /\ UNCHANGED << sunPosition, clockVars, materialVars, shaderVars, shellVars >>

\* the loader's onError callback for kind k, lines 54-57, and the reactions it starts
LoadFails(k) ==
  /\ loads[k] = "pending"
  /\ loads' = [loads EXCEPT ![k] = "failed"]
  /\ settled' = Append(settled, << k, "failed" >>)
  /\ result' = AfterLoad(k, "failed")
  /\ UNCHANGED << resolution, calls >>
  /\ UNCHANGED << sunPosition, clockVars, materialVars, shaderVars, shellVars >>

LoaderNext ==
  \/ \E res \in Resolutions : LoadEarthTexturesWithFallback(res)
  \/ \E k \in TextureKinds : LoadSucceeds(k)
  \/ \E k \in TextureKinds : LoadFails(k)

\* ------------------------------- the surface fragment shader (src/unnamed/part_000)
\* Lengths are whole kilometers (hazeFalloff is in meters, as in the code),
\* directions, dot products and the haze are in 1/Scale, the haze uniforms in
\* hundredths.  The camera and the shaded point lie in one plane through the
\* planet's center, the camera on the y axis.

Min(a, b) == IF a < b THEN a ELSE b

Max(a, b) == IF a > b THEN a ELSE b

\* Scale * exp(-k / 4), k = 0 .. 48, at index k + 1
ExpTable ==
  << 10000, 7788, 6065, 4724, 3679, 2865, 2231, 1738, 1353, 1054, 821, 639, 498, 388, 302,
     235, 183, 143, 111, 87, 67, 52, 41, 32, 25, 19, 15, 12, 9, 7, 6, 4, 3, 3, 2, 2, 1, 1, 1,
     1, 0, 0, 0, 0, 0, 0, 0, 0, 0 >>

\* Scale * exp(-r / 1000) for 0 <= r < 250: 1 - r + r^2 / 2 - r^3 / 6
ExpSeries(r) == Scale - 10 * r + RDiv(r * r, 200) - RDiv(r * r * r, 6 * 10 ^ 5)

\* num / den in thousandths, for num >= 0 and den > 0
Thousandths(num, den) == (num \div den) * 1000 + ((num % den) * 1000) \div den

\* exp(-num / den) in 1/Scale, for num >= 0 and den > 0
ExpNeg(num, den) ==
  IF num >= 12 * den THEN 0
  ELSE RDiv(ExpTable[Thousandths(num, den) \div 250 + 1]
              * ExpSeries(Thousandths(num, den) % 250), Scale)

\* GLSL clamp(x, 0.0, 1.0) in 1/Scale
Saturate(x) == Min(Max(x, 0), Scale)

\* t * t * (3.0 - 2.0 * t) in 1/Scale
Hermite(t) == RDiv(RDiv(t * t, Scale) * (3 * Scale - 2 * t), Scale)

\* GLSL smoothstep(edge0, edge1, x), edge0 < edge1
smoothstep(edge0, edge1, x) == Hermite(Saturate(RDiv((x - edge0) * Scale, edge1 - edge0)))

\* clamp without the upper bound
clamp_LowerOnly(x, minVal, maxVal) == { Max(x, minVal) }

\* GLSL clamp(x, minVal, maxVal) = min(max(x, minVal), maxVal); the result is
\* undefined when minVal > maxVal: the values the two usual implementations give
clamp(x, minVal, maxVal) ==
  IF minVal <= maxVal THEN { Min(Max(x, minVal), maxVal) }
  ELSE { Min(Max(x, minVal), maxVal), Max(Min(x, maxVal), minVal) }

\* dot(a, b) of a position in kilometers and a direction in 1/Scale
Dot(a, b) == RDiv(a[1] * b[1] + a[2] * b[2] + a[3] * b[3], Scale)

\* length(v)
Length(v) == Sqrt(v[1] * v[1] + v[2] * v[2] + v[3] * v[3])

\* the b of raySphereEntryT and the rest of it, lines 121-125
EntryFrom(b, c) ==
  IF b * b - c <= 0 THEN 0 ELSE Max(-b - Sqrt(b * b - c), 0)

\* raySphereEntryT(ro, rd, r), lines 119-126
raySphereEntryT(ro, rd, r) ==
  EntryFrom(Dot(ro, rd), ro[1] * ro[1] + ro[2] * ro[2] + ro[3] * ro[3] - r * r)

\* toP / max(tSurface, 1e-6), line 165
RayDirection(toP, tSurface) ==
  IF tSurface = 0 THEN << 0, 0, 0 >>
  ELSE << RDiv(toP[1] * Scale, tSurface), RDiv(toP[2] * Scale, tSurface),
          RDiv(toP[3] * Scale, tSurface) >>

\* lines 162-171 for the camera at C and the surface point P, atmosphereScale in
\* hundredths: pathLen = max(0, tSurface - tEntry)
PathLenBetween(C, P, atmosphereScale) ==
  Max(0, Length(<< P[1] - C[1], P[2] - C[2], P[3] - C[3] >>)
         - raySphereEntryT(C,
             RayDirection(<< P[1] - C[1], P[2] - C[2], P[3] - C[3] >>,
                          Length(<< P[1] - C[1], P[2] - C[2], P[3] - C[3] >>)),
             RDiv(Length(P) * atmosphereScale, 100)))

\* the surface point at `angle` degrees from the camera's axis on the sphere of radius r
SurfacePoint(r, angle) ==
  << RDiv(r * Sin(angle * 1000), Scale), RDiv(r * Cos(angle * 1000), Scale), 0 >>

\* pathLen for the camera at `distance` from the center
PathLen(distance, r, angle, atmosphereScale) ==
  PathLenBetween(<< 0, distance, 0 >>, SurfacePoint(r, angle), atmosphereScale)

\* GLSL mix(x, y, a) = x * (1 - a) + y * a, one channel in 1/Scale
Mix(x, y, a) == RDiv(x * (Scale - a) + y * a, Scale)

\* dayStrength with the thresholds of atmosphereMix, the next line of the shader
DayStrength_AtmosphereMix(sunOrientation) ==
  smoothstep(-(Scale \div 4), (3 * Scale) \div 4, sunOrientation)

\* dayStrength = smoothstep(-0.25, 0.5, sunOrientation), line 148
DayStrength(sunOrientation) == smoothstep(-(Scale \div 4), Scale \div 2, sunOrientation)

\* finalColor = mix(nightColor, baseColor, dayStrength), line 155, one channel
SurfaceColor(nightColor, baseColor, sunOrientation) ==
  Mix(nightColor, baseColor, DayStrength(sunOrientation))

\* exp(-hazeFalloff / pathLen): the operands of the division exchanged
Transmittance_Swapped(pathLen, hazeFalloff) ==
  ExpNeg(Max(hazeFalloff, 1), Max(pathLen * 1000, 1))

\* exp(-pathLen / max(hazeFalloff, 1.0)), line 174; pathLen in kilometers
Transmittance(pathLen, hazeFalloff) == ExpNeg(pathLen * 1000, Max(hazeFalloff, 1))

\* 0.25 + 0.75 * smoothstep(-0.15, 0.25, sunOrientation), line 177
SunFactor(sunOrientation) ==
  Scale \div 4 + RDiv(3 * smoothstep(-(15 * Scale) \div 100, Scale \div 4, sunOrientation), 4)

\* haze * hazeStrength of line 180, before the clamp
HazeAmount(pathLen, sunOrientation, hazeStrength, hazeFalloff) ==
  RDiv(RDiv((Scale - Transmittance(pathLen, hazeFalloff)) * SunFactor(sunOrientation), Scale)
         * hazeStrength, 100)

\* the values line 180 can leave in haze
Haze(pathLen, sunOrientation, u) ==
  clamp(HazeAmount(pathLen, sunOrientation, u.hazeStrength, u.hazeFalloff),
        0, u.hazeMax * (Scale \div 100))

\* the values updateEarthMaterialUniforms is given for the haze uniforms
HazeSettings ==
  [ atmosphereScale |-> { 104, 110 },
    hazeStrength |-> { -50, 85, 200 },
    hazeFalloff |-> { -900000, 0, 300000, 900000 },
    hazeMax |-> { -10, 0, 85 } ]

\* distances of the camera from the planet's center, in kilometers
CameraDistances == { 6371, 6471, 8000, 20000 }

\* radius of the globe mesh, in kilometers
PlanetRadii == { 6371 }

\* angles between the camera's axis and the shaded point, in degrees
SurfaceAngles == { 0, 20, 60 }

\* dot(N, sunDir) of the shaded point
SunOrientations == { -(Scale \div 4), 0, Scale \div 10, Scale \div 2 }

\* one channel of the night texel and of baseColor (day texel, imagery and clouds)
\* of the shaded point, in 1/Scale
Texels == { << 500, 9000 >>, << 6000, 2000 >> }

\* the operation is within the run's bound
CanStepShader == fsteps < MaxShaderSteps

ShaderInit ==
  /\ hazeUniforms = [ atmosphereScale |-> DefaultOptions.atmosphereScale,
                      hazeStrength |-> DefaultOptions.hazeStrength,
                      hazeFalloff |-> DefaultOptions.hazeFalloff,
                      hazeMax |-> DefaultOptions.hazeMax ]
  /\ cameraDistance = 20000
  /\ shaded = << >>
  /\ fsteps = 0

\* updateEarthMaterialUniforms, lines 426-437: one haze uniform gets a new value
SetHazeUniform(name, value) ==
  /\ CanStepShader
  /\ hazeUniforms' = [hazeUniforms EXCEPT ![name] = value]
  /\ fsteps' = fsteps + 1
  /\ UNCHANGED << sunPosition, clockVars, materialVars, loaderVars, shellVars >>
  /\ UNCHANGED << cameraDistance, shaded >>

\* the camera moves: cameraPosition, line 162
MoveCamera(distance) ==
  /\ CanStepShader
  /\ cameraDistance' = distance
  /\ fsteps' = fsteps + 1
  /\ UNCHANGED << sunPosition, clockVars, materialVars, loaderVars, shellVars >>
  /\ UNCHANGED << hazeUniforms, shaded >>

\* main() of the fragment shader, lines 128-180, for one fragment: the colour
\* before the haze and the haze
Shade(r, angle, sunOrientation, texel) ==
  /\ CanStepShader
  /\ \E pathLen \in { PathLen(cameraDistance, r, angle, hazeUniforms.atmosphereScale) } :
     \E haze \in Haze(pathLen, sunOrientation, hazeUniforms) :
       shaded' = [ pathLen |-> pathLen,
                   sunOrientation |-> sunOrientation,
                   uniforms |-> hazeUniforms,
                   nightColor |-> texel[1],
                   baseColor |-> texel[2],
                   dayStrength |-> DayStrength(sunOrientation),
                   surface |-> SurfaceColor(texel[1], texel[2], sunOrientation),
                   haze |-> haze ]
  /\ fsteps' = fsteps + 1
  /\ UNCHANGED << sunPosition, clockVars, materialVars, loaderVars, shellVars >>
  /\ UNCHANGED << hazeUniforms, cameraDistance >>

ShaderNext ==
  \/ \E name \in DOMAIN HazeSettings : \E value \in HazeSettings[name] :
       SetHazeUniform(name, value)
  \/ \E distance \in CameraDistances : MoveCamera(distance)
  \/ \E r \in PlanetRadii, angle \in SurfaceAngles, sunOrientation \in SunOrientations :
       \E texel \in Texels : Shade(r, angle, sunOrientation, texel)

\* ---------------------- the atmosphere shell's fragment shader (src/unnamed/part_000)
\* Units as for the surface shader: kilometers, heightFade in meters, directions
\* and alpha in 1/Scale, haloStrength, haloPower and atmosphereScale in hundredths.
\* The camera is on the y axis, the shell point and the sun in the plane z = 0.

\* -ln(x / Scale) in thousandths, 0 < x <= Scale: the least r in lo .. hi with
\* exp(-r / 1000) <= x / Scale
RECURSIVE NegLnIn(_, _, _)
NegLnIn(x, lo, hi) ==
  IF lo = hi THEN lo
  ELSE IF ExpNeg((lo + hi) \div 2, 1000) <= x THEN NegLnIn(x, lo, (lo + hi) \div 2)
       ELSE NegLnIn(x, (lo + hi) \div 2 + 1, hi)

\* GLSL pow(x, y) = exp(y * ln(x)) for 0 <= x <= 1 and y > 0, y in hundredths
Pow(x, y) ==
  IF x = 0 THEN 0 ELSE ExpNeg(y * NegLnIn(x, 0, 12000), 100 * 1000)

\* -v
Negated(v) == << -v[1], -v[2], -v[3] >>

\* normalize(v) of a vector in kilometers that is not zero
Direction(v) == RayDirection(v, Length(v))

\* N: normalize(vWorldNormal), negated for a fragment that is not front facing,
\* lines 335-336; the shell is a sphere around the origin
ShellNormal(P, frontFacing) ==
  IF frontFacing THEN Direction(P) ELSE Negated(Direction(P))

\* the sun direction at `angle` degrees from the camera's axis
SunDirectionAt(angle) == << Sin(angle * 1000), Cos(angle * 1000), 0 >>

\* ring = pow(clamp(1 - abs(dot(viewDir, N)), 0, 1), haloPower), lines 348-349
Ring(viewDir, N, haloPower) == Pow(Saturate(Scale - Abs(Dot(viewDir, N))), haloPower)

\* planetR = topR / max(atmosphereScale, 1e-6) and height = max(0, length(C) - planetR),
\* lines 352-354
Height(distance, topR, atmosphereScale) ==
  IF atmosphereScale <= 0 THEN 0
  ELSE Max(0, distance - RDiv(topR * 100, atmosphereScale))

\* density = mix(0.18, 1.0, clamp(exp(-height / max(heightFade, 1.0)), 0, 1)),
\* lines 355-358
Density(height, heightFade) ==
  Mix((18 * Scale) \div 100, Scale, Saturate(ExpNeg(height * 1000, Max(heightFade, 1))))

\* sunSpot = pow(max(dot(-viewDir, sunDir), 0.0), 10.0), line 361
SunSpot(viewDir, sunDir) == Pow(Max(-Dot(viewDir, sunDir), 0), 1000)

\* 0.25 + 0.75 * smoothstep(-0.2, 0.25, sunOrientation), line 367
ShellNightFactor(sunOrientation) ==
  Scale \div 4 + RDiv(3 * smoothstep(-(Scale \div 5), Scale \div 4, sunOrientation), 4)

\* alpha of lines 363-367, before the clamp
AlphaAmount(ring, density, sunSpot, sunOrientation, haloStrength) ==
  RDiv((RDiv(RDiv(haloStrength * density, 100) * ring, Scale)
          + RDiv(35 * RDiv(sunSpot * ring, Scale), 100))
         * ShellNightFactor(sunOrientation), Scale)

\* the alpha of line 369 without the clamp
Alpha_Unclamped(amount) == { amount }

\* alpha = clamp(alpha, 0.0, 1.0), line 369
Alpha(amount) == clamp(amount, 0, Scale)

\* the values the halo uniforms are given
HaloSettings ==
  [ atmosphereScale |-> { 104, 110 },
    haloStrength |-> { -50, 135 },
    haloPower |-> { 100, 220 },
    heightFade |-> { 0, 1400000 } ]

\* radius of the shell mesh, in kilometers: the globe's radius times 1.04
ShellRadii == { 6626 }

\* distances of the camera from the planet's center, in kilometers
ShellCameraDistances == { 6371, 6700, 20000 }

\* angles between the camera's axis and the shell point, in degrees
ShellAngles == { 0, 9, 60 }

\* angles between the camera's axis and the sun, in degrees
SunAngles == { 0, 90 }

\* the operation is within the run's bound
CanStepShell == hsteps < MaxShellSteps

ShellInit ==
  /\ haloUniforms = [ atmosphereScale |-> 104, haloStrength |-> 135,
                      haloPower |-> 220, heightFade |-> 1400000 ]
  /\ shelled = << >>
  /\ hsteps = 0

\* a halo uniform gets a new value through material.uniforms (userData.uniforms)
SetHaloUniform(name, value) ==
  /\ CanStepShell
  /\ haloUniforms' = [haloUniforms EXCEPT ![name] = value]
  /\ hsteps' = hsteps + 1
  /\ UNCHANGED << sunPosition, clockVars, materialVars, loaderVars, shaderVars >>
  /\ UNCHANGED shelled

\* lines 363-369: the fragment's alpha from its ring, density and sun spot
ShellFragment(distance, sunOrientation, ring, density, sunSpot) ==
  \E amount \in { AlphaAmount(ring, density, sunSpot, sunOrientation,
                               haloUniforms.haloStrength) } :
  \E alpha \in Alpha(amount) :
    shelled' = [ distance |-> distance, sunOrientation |-> sunOrientation, ring |-> ring,
                 uniforms |-> haloUniforms, amount |-> amount,
                 nightFactor |-> ShellNightFactor(sunOrientation), alpha |-> alpha ]

\* main() of the shell's fragment shader, lines 332-371, for one fragment at P
\* seen from the camera at C
ShadeShell(distance, topR, angle, sunAngle, frontFacing) ==
  /\ CanStepShell
  /\ \E P \in { SurfacePoint(topR, angle) } :
     \E viewDir \in { Direction(<< -P[1], distance - P[2], -P[3] >>) } :
     \E N \in { ShellNormal(P, frontFacing) } :
       ShellFragment(distance, Dot(N, SunDirectionAt(sunAngle)),
                     Ring(viewDir, N, haloUniforms.haloPower),
                     Density(Height(distance, topR, haloUniforms.atmosphereScale),
                             haloUniforms.heightFade),
                     SunSpot(viewDir, SunDirectionAt(sunAngle)))
  /\ hsteps' = hsteps + 1
  /\ UNCHANGED << sunPosition, clockVars, materialVars, loaderVars, shaderVars >>
  /\ UNCHANGED haloUniforms

ShellNext ==
  \/ \E name \in DOMAIN HaloSettings : \E value \in HaloSettings[name] :
       SetHaloUniform(name, value)
  \/ \E distance \in ShellCameraDistances, topR \in ShellRadii, angle \in ShellAngles :
       \E sunAngle \in SunAngles, frontFacing \in BOOLEAN :
         ShadeShell(distance, topR, angle, sunAngle, frontFacing)

\* ------------------------------------------------------------ specifications

\* the state after construction of every component
Constructed == Init /\ MaterialInit /\ LoaderInit /\ ShaderInit /\ ShellInit

\* the lighting controller
Spec == Constructed /\ [][Next]_vars

\* the materials, with the sun light they are given
MaterialSpec == Constructed /\ [][MaterialNext]_vars

\* the texture loader
LoaderSpec == Constructed /\ [][LoaderNext]_vars

\* the surface fragment shader
ShaderSpec == Constructed /\ [][ShaderNext]_vars

\* the atmosphere shell's shader
ShellSpec == Constructed /\ [][ShellNext]_vars

\* ------------------------------------------------------------------- claims

\* the last call was op
After(op) == Len(hist) >= 1 /\ hist[Len(hist)].op = op

\* the last call, with the state it started from
Last == hist[Len(hist)]

\* the last two calls were op1 then op2
AfterBoth(op1, op2) == Len(hist) = 2 /\ hist[1].op = op1 /\ hist[2].op = op2

\* what the named sun model gives for an instant and a location
ModelOutput(simplified, time, lat, lng) ==
  IF simplified THEN getSimplifiedSunDirection(time)
  ELSE getSunDirectionVector(time, lat, lng)

\* the sun position is the active model's output for the current clock and location
SunIsCurrent == sunPosition = ModelOutput(useSimplified, Clock, latitude, longitude)

\* the last call was an update that started Running
AfterRunningUpdate == After("update") /\ Last.pre.timeSpeed # 0

\* C1: update(deltaTime) while timeSpeed is 0 changes nothing: the clock instant,
\* the sun position and every other field are what they were before the call.
C1_PausedUpdateChangesNothing ==
  (After("update") /\ Last.pre.timeSpeed = 0) => Snapshot = Last.pre

\* a paused update(1 s) on a controller whose sun was recomputed before
C1_Witness ==
  /\ After("update")
  /\ Last.pre.timeSpeed = 0
  /\ Last.args = << 1000 * TicksPerMs >>
  /\ lastRecompute # << >>
  /\ sunPosition # << 0, 0, Scale >>

\* C2: one Running update(deltaTime) sets the clock to the previous instant plus
\* deltaTime x 1000 x timeSpeed milliseconds, for every deltaTime and timeSpeed.
C2_UpdateAddsExactly ==
  AfterRunningUpdate =>
    (Clock - Last.pre.clock) * TicksPerMs = Last.args[1] * Last.pre.timeSpeed

\* C3: every update(deltaTime) with deltaTime > 0 strictly increases the clock when
\* timeSpeed > 0 and strictly decreases it when timeSpeed < 0.
C3_StrictlyMonotonic ==
  (After("update") /\ Last.args[1] > 0) =>
    /\ Last.pre.timeSpeed > 0 => Clock > Last.pre.clock
    /\ Last.pre.timeSpeed < 0 => Clock < Last.pre.clock

\* C4: two consecutive update(d) calls while Running leave the clock where one
\* update(2d) would: the advance of the two calls is twice d x 1000 x timeSpeed.
C4_TwoUpdatesAddTwice ==
  ( /\ AfterBoth("update", "update")
    /\ hist[1].args = hist[2].args
    /\ hist[1].pre.timeSpeed # 0 ) =>
    Clock = DateOfSum(hist[1].pre.clock, 2 * hist[1].args[1] * hist[1].pre.timeSpeed)

C6_RecomputedOnReturn ==
  ( \/ After("setDate")
    \/ After("setTimeOfDay")
    \/ After("setLocation")
    \/ After("setSimplifiedMode")
    \/ AfterRunningUpdate ) => SunIsCurrent

\* setDate moved the clock and the sun with it
C6_Witness ==
  /\ After("setDate")
  /\ Clock # Last.pre.clock
  /\ sunPosition # Last.pre.sunPosition
  /\ Last.pre.sunPosition # << 0, 0, Scale >>

\* C7: only update (Running), setDate, setTimeOfDay and updateSunPosition(date)
\* change the clock instant; setTimeSpeed, setLocation, setSimplifiedMode,
\* setIntensity, setAmbientIntensity, getSunDirection, getTimeInfo, dispose (and
\* updateSunPosition() and a Paused update) leave it, and setTimeSpeed,
\* setIntensity and setAmbientIntensity also leave the sun position.
C7_ClockFrame ==
  /\ ( \/ After("setTimeSpeed") \/ After("setLocation") \/ After("setSimplifiedMode")
       \/ After("setIntensity") \/ After("setAmbientIntensity") \/ After("getSunDirection")
       \/ After("getTimeInfo") \/ After("dispose")
       \/ (After("updateSunPosition") /\ Last.args = << >>)
       \/ (After("update") /\ Last.pre.timeSpeed = 0) ) => Clock = Last.pre.clock
  /\ (After("setTimeSpeed") \/ After("setIntensity") \/ After("setAmbientIntensity"))
       => sunPosition = Last.pre.sunPosition

\* setTimeSpeed changed the speed of a controller whose clock has been moved, and
\* whose sun was never recomputed
C7_Witness ==
  /\ After("setTimeSpeed")
  /\ timeSpeed # Last.pre.timeSpeed
  /\ lastRecompute = << >>
  /\ callerWrote

\* C8: setLocation(lat, lng) stores lat and lng, makes the full model the active
\* one whatever the mode was, and leaves the full model's sun position for the
\* current clock and (lat, lng).
C8_SetLocation ==
  After("setLocation") =>
    /\ latitude = Last.args[1]
    /\ longitude = Last.args[2]
    /\ useSimplified = FALSE
    /\ sunPosition = getSunDirectionVector(Clock, Last.args[1], Last.args[2])

\* setLocation on a controller that had another location and was in simplified mode
C8_Witness ==
  /\ After("setLocation")
  /\ Last.pre.useSimplified
  /\ Last.pre.latitude # 0
  /\ Last.pre.latitude # latitude

\* C9: setSimplifiedMode(enabled) changes only the active model and the sun
\* position: latitude, longitude, clock instant, timeSpeed and all the rest are
\* the same after the call as before.
C9_SimplifiedModeFrame ==
  After("setSimplifiedMode") =>
    [Snapshot EXCEPT !.useSimplified = Last.pre.useSimplified,
                     !.sunPosition = Last.pre.sunPosition] = Last.pre

\* setSimplifiedMode(true) on a Running controller with a location set
C9_Witness ==
  /\ After("setSimplifiedMode")
  /\ Last.args = << TRUE >>
  /\ ~Last.pre.useSimplified
  /\ latitude # 0
  /\ timeSpeed # 0

\* C10: with a location set and the full model active, setSimplifiedMode(true)
\* then setSimplifiedMode(false) leaves the sun position the full model gives
\* for the clock and location from before the switch, which is also what a
\* fresh full-model computation gives, and the position from before the switch
\* whenever that was the full model's.
C10_ModeRoundTrip ==
  ( /\ AfterBoth("setSimplifiedMode", "setSimplifiedMode")
    /\ hist[1].args = << TRUE >>
    /\ hist[2].args = << FALSE >>
    /\ ~hist[1].pre.useSimplified ) =>
    /\ sunPosition = getSunDirectionVector(hist[1].pre.clock, hist[1].pre.latitude,
                                           hist[1].pre.longitude)
    /\ sunPosition = getSunDirectionVector(Clock, latitude, longitude)
    /\ hist[1].pre.sunPosition
         = getSunDirectionVector(hist[1].pre.clock, hist[1].pre.latitude,
                                 hist[1].pre.longitude)
       => sunPosition = hist[1].pre.sunPosition

\* the round trip happened, and the simplified sun in between was another one
C10_Witness ==
  /\ AfterBoth("setSimplifiedMode", "setSimplifiedMode")
  /\ hist[1].args = << TRUE >>
  /\ hist[2].args = << FALSE >>
  /\ ~hist[1].pre.useSimplified
  /\ hist[1].pre.latitude # 0
  /\ hist[2].pre.sunPosition # sunPosition
  /\ hist[1].pre.sunPosition = sunPosition

\* C11: setTimeOfDay(hours, minutes) raises nothing for any integer hours and
\* minutes, in or out of 0-23 and 0-59, and leaves the clock at 00:00:00.000 UTC
\* of the UTC day the clock was in plus hours x 60 + minutes minutes, rolling
\* into the day before or after; seconds and milliseconds are zero.
C11_SetTimeOfDayRollsOver ==
  After("setTimeOfDay") =>
    /\ returned = << >>
    /\ Clock = (Last.pre.clock - (Last.pre.clock % MsPerDay))
                + (Last.args[1] * 60 + Last.args[2]) * MsPerMinute
    /\ Clock % MsPerMinute = 0

\* setTimeOfDay(25, -30) on a clock before the epoch that showed seconds, which
\* lands in the next UTC day
C11_Witness ==
  /\ After("setTimeOfDay")
  /\ Last.args = << 25, -30 >>
  /\ Last.pre.clock < 0
  /\ Last.pre.clock % MsPerMinute # 0
  /\ Clock \div MsPerDay = Last.pre.clock \div MsPerDay + 1

\* C12: the controller starts Paused; between Paused and Running only
\* setTimeSpeed moves it; in every state, also after dispose(), one setTimeSpeed
\* call reaches Paused and one reaches Running; and the update that follows a
\* setTimeSpeed does what the state it set prescribes: nothing when Paused, the
\* clock advanced and the sun recomputed when Running.
C12_NoTerminalState ==
  /\ steps = 0 => timeSpeed = 0
  /\ (Len(hist) >= 1 /\ ~After("setTimeSpeed")) => timeSpeed = Last.pre.timeSpeed
  /\ CanStep =>
       /\ ENABLED (SetTimeSpeed(0) /\ timeSpeed' = 0)
       /\ ENABLED (SetTimeSpeed(60) /\ timeSpeed' # 0)
  /\ AfterBoth("setTimeSpeed", "update") =>
       IF hist[1].args[1] = 0
       THEN Snapshot = hist[2].pre
       ELSE /\ Clock = DateOfSum(hist[2].pre.clock, hist[2].args[1] * hist[1].args[1])
            /\ SunIsCurrent

\* after dispose(), setTimeSpeed made the controller Running and update moved the clock
C12_Witness ==
  /\ AfterBoth("setTimeSpeed", "update")
  /\ hist[1].pre.sceneChildren = { }
  /\ hist[1].pre.timeSpeed = 0
  /\ timeSpeed # 0
  /\ Clock # hist[2].pre.clock

\* C13: in simplified mode the sun position depends on the instant only: it is
\* what a controller with the same instant and any other stored latitude and
\* longitude computes.
C13_SimplifiedIgnoresLocation ==
  (useSimplified /\ lastRecompute # << >>) =>
    \A l \in Locations \cup { << 0, 0 >> } :
      sunPosition = SunPositionOf(TRUE, lastRecompute[1], l[1], l[2])

\* simplified mode was switched on with a location stored
C13_Witness ==
  /\ After("setSimplifiedMode")
  /\ useSimplified
  /\ latitude # 0
  /\ longitude # 0
  /\ sunPosition # Last.pre.sunPosition

\* the last material operation was op
AfterMaterial(op) == mhist # << >> /\ mhist[1].op = op

\* the last material operation, with the state it started from
LastMaterial == mhist[1]

\* the per-tile clones
Clones == { i \in 1 .. Len(materials) : materials[i].kind = "clone" }

\* the value of material i's uniform `name`
Uniform(i, name) == cells[materials[i].uniforms[name]]

\* the shading parameters a surface material carries besides the overlay
CarriedNames ==
  { "dayTexture", "nightTexture", "bumpRoughnessCloudsTexture", "roughnessLow",
    "roughnessHigh", "atmosphereScale", "hazeStrength", "hazeFalloff", "hazeMax" }

\* C14: whenever a surface material, a clone of it or the atmosphere material has
\* been drawn, the sunDirection its shader read is the normalized position the
\* sun light has, whatever was drawn before it.
C14_DrawnWithCurrentSun ==
  AfterMaterial("render") => drawn.sunDirection = Normalize(sunPosition)

\* C15: after any clone() calls, of the base or of a clone, and any change of the
\* base's sun direction or atmosphere colours, every clone reads the sun
\* direction and the two atmosphere colours the base material reads.
C15_ClonesTrackBase ==
  \A i \in Clones : \A name \in { "sunDirection" } \cup ColorNames :
    Uniform(i, name) = Uniform(BaseMaterial, name)

\* a clone of a clone exists, and since it was made the base's sun direction was
\* written by a draw or one of its colours by updateEarthMaterialUniforms
C15_Witness ==
  /\ \E i \in Clones : materials[i].from \in Clones
  /\ \/ /\ AfterMaterial("render")
        /\ LastMaterial.args = << BaseMaterial >>
        /\ Uniform(BaseMaterial, "sunDirection") # << 0, 0, 0 >>
     \/ /\ AfterMaterial("updateEarthMaterialUniforms")
        /\ \E name \in ColorNames :
             Uniform(BaseMaterial, name) # InitialCells[EarthMaterial.uniforms[name]]

\* C16: a clone carries every shading parameter of the base but the overlay:
\* the three textures, roughnessLow, roughnessHigh, atmosphereScale,
\* hazeStrength, hazeFalloff and hazeMax are uniforms of the clone, with the
\* base's values.
C16_CloneCarriesParameters ==
  AfterMaterial("clone") =>
    \A name \in CarriedNames :
      /\ name \in DOMAIN materials[Len(materials)].uniforms
      /\ Uniform(Len(materials), name) = Uniform(BaseMaterial, name)

\* the value a uniform holds when it has been set to v
Given(name, v) == IF name \in ColorNames THEN ColorVector(v) ELSE v

\* C17: updateEarthMaterialUniforms(material, updates) leaves each uniform named
\* in updates at the given value and every other uniform as it was, with no
\* error; on a material without exposed uniforms it changes nothing.
C17_UpdateSetsExactlyNamed ==
  AfterMaterial("updateEarthMaterialUniforms") =>
    /\ ~raised
    /\ Len(cells) = Len(LastMaterial.pre.cells)
    /\ IF materials[LastMaterial.args[1]].exposed
       THEN \A name \in DOMAIN materials[LastMaterial.args[1]].uniforms :
              Uniform(LastMaterial.args[1], name) =
                IF name \in DOMAIN LastMaterial.args[2]
                THEN Given(name, LastMaterial.args[2][name])
                ELSE LastMaterial.pre.cells[materials[LastMaterial.args[1]].uniforms[name]]
       ELSE cells = LastMaterial.pre.cells

\* every load of the call has ended
AllSettled == \A k \in TextureKinds : loads[k] \in { "loaded", "failed" }

\* v is a texture
IsTexture(v) == v.from \in { "file", "canvas", "data" }

\* C18: the promise of loadEarthTexturesWithFallback is never rejected; it is
\* resolved at the latest when the three loads have ended, with day, night and
\* bumpRoughnessClouds textures, and usingFallback is true exactly when at least
\* one of the three loads failed.
C18_NeverRejects ==
  /\ result.state # "rejected"
  /\ AllSettled => result.state = "resolved"
  /\ (\E k \in TextureKinds : loads[k] = "failed") => result.state = "resolved"
  /\ result.state = "resolved" =>
       /\ DOMAIN result.value = TextureKinds \cup { "usingFallback" }
       /\ \A k \in TextureKinds : IsTexture(result.value[k])
       /\ result.value.usingFallback = (\E k \in TextureKinds : loads[k] = "failed")

\* one load succeeded, then another failed while the third was still pending,
\* and the call resolved with the fallback
C18_Witness ==
  /\ result.state = "resolved"
  /\ result.value.usingFallback
  /\ Len(settled) = 2
  /\ settled[1][2] = "loaded"
  /\ settled[2][2] = "failed"

\* the haze of the fragment last shaded is within 0 and its hazeMax
HazeInRange ==
  /\ 0 <= shaded.haze
  /\ shaded.haze <= shaded.uniforms.hazeMax * (Scale \div 100)

\* C19: the surface haze is in [0, hazeMax] for every path length, sun
\* orientation, hazeStrength, hazeFalloff and hazeMax.
C19_HazeAlwaysInRange == shaded # << >> => HazeInRange

\* C19 as amended: for every hazeMax that is not negative, and every path length,
\* sun orientation, hazeStrength and hazeFalloff, the surface haze is in
\* [0, hazeMax].
C19_HazeInRangeForValidMax ==
  (shaded # << >> /\ shaded.uniforms.hazeMax >= 0) => HazeInRange

\* a fragment whose haze the clamp cut down to a positive hazeMax
C19_Witness ==
  /\ shaded # << >>
  /\ shaded.uniforms.hazeMax > 0
  /\ shaded.haze = shaded.uniforms.hazeMax * (Scale \div 100)
  /\ HazeAmount(shaded.pathLen, shaded.sunOrientation, shaded.uniforms.hazeStrength,
                shaded.uniforms.hazeFalloff) > shaded.haze

\* the haze values the fragment last shaded can get with hazeFalloff f instead
HazeWithFalloff(f) ==
  Haze(shaded.pathLen, shaded.sunOrientation, [shaded.uniforms EXCEPT !.hazeFalloff = f])

\* the settings of hazeFalloff larger than the one of the fragment last shaded
LargerFalloffs == { f \in HazeSettings.hazeFalloff : f > shaded.uniforms.hazeFalloff }

\* C20: with the path length and all other inputs fixed, a larger hazeFalloff
\* gives a strictly smaller surface haze.
C20_LargerFalloffStrictlyLess ==
  shaded # << >> =>
    \A f \in LargerFalloffs : \A haze \in HazeWithFalloff(f) : haze < shaded.haze

\* C20 as amended: for hazeMax not negative and all other inputs fixed, a larger
\* hazeFalloff never gives a larger surface haze; the haze is strictly smaller
\* only if the path length and hazeStrength are positive, the larger hazeFalloff
\* is above 1 meter and exp(-pathLen / hazeFalloff) differs for the two.
C20_LargerFalloffNeverMore ==
  (shaded # << >> /\ shaded.uniforms.hazeMax >= 0) =>
    \A f \in LargerFalloffs : \A haze \in HazeWithFalloff(f) :
      /\ haze <= shaded.haze
      /\ haze < shaded.haze =>
           /\ shaded.pathLen > 0
           /\ shaded.uniforms.hazeStrength > 0
           /\ f > 1
           /\ Transmittance(shaded.pathLen, f)
                > Transmittance(shaded.pathLen, shaded.uniforms.hazeFalloff)

\* a fragment with a positive path length whose haze is not clamped, shaded after
\* hazeFalloff was set to a value that has a larger one to compare with
C20_Witness ==
  /\ shaded # << >>
  /\ shaded.uniforms.hazeFalloff = 300000
  /\ shaded.pathLen > 0
  /\ shaded.haze < shaded.uniforms.hazeMax * (Scale \div 100)
  /\ \E f \in LargerFalloffs : \E haze \in HazeWithFalloff(f) : haze < shaded.haze

\* sunOrientation is strictly between the two thresholds of dayStrength
BetweenThresholds(s) == -(Scale \div 4) < s /\ s < Scale \div 2

\* C21: dayStrength is 0 for every sunOrientation <= -0.25, 1 for every
\* sunOrientation >= 0.5 and increasing in between, so that the surface colour
\* before the haze is the night colour below the lower threshold and the base
\* colour above the upper one.
C21_DayStrengthThresholds ==
  shaded # << >> =>
    /\ shaded.sunOrientation <= -(Scale \div 4) =>
         shaded.dayStrength = 0 /\ shaded.surface = shaded.nightColor
    /\ shaded.sunOrientation >= Scale \div 2 =>
         shaded.dayStrength = Scale /\ shaded.surface = shaded.baseColor
    /\ \A s \in SunOrientations :
         s > shaded.sunOrientation =>
           /\ DayStrength(s) >= shaded.dayStrength
           /\ (BetweenThresholds(s) /\ BetweenThresholds(shaded.sunOrientation)) =>
                DayStrength(s) > shaded.dayStrength

\* a fragment between the thresholds, its colour strictly between the night and
\* the base colour
C21_Witness ==
  /\ shaded # << >>
  /\ BetweenThresholds(shaded.sunOrientation)
  /\ 0 < shaded.dayStrength /\ shaded.dayStrength < Scale
  /\ shaded.nightColor < shaded.surface /\ shaded.surface < shaded.baseColor
  /\ \E s \in SunOrientations : s > shaded.sunOrientation /\ BetweenThresholds(s)

C26_SameNightFactor ==
  shelled # << >> => shelled.nightFactor = SunFactor(shelled.sunOrientation)

\* C23: getSunDirectionVector returns the negation of the unit vector (x, y, z) it
\* builds from altitude and azimuth: each of the three components is negated.
\* (setLocation ends in astronomical mode with the sun set to that vector.)
C23_AllComponentsNegated ==
  After("setLocation") =>
    sunPosition
      = Normalize(Negated(Cartesian(calculateSunPosition(Clock, latitude, longitude))))

\* the length of v is 1 within 2 / Scale
NearUnit(v) == Abs(Length(v) - Scale) <= 2

\* C24: for every date, latitude and longitude the vectors returned by
\* getSunDirectionVector and by getSimplifiedSunDirection have length 1 within
\* tolerance, and so has the sun position once updateSunPosition has set it.
C24_UnitLength ==
  /\ NearUnit(getSunDirectionVector(Clock, latitude, longitude))
  /\ NearUnit(getSimplifiedSunDirection(Clock))
  /\ lastRecompute # << >> => NearUnit(sunPosition)

\* the astronomical model ran for a location off the equator and gave a vector
\* with no component zero
C24_Witness ==
  /\ After("setLocation")
  /\ latitude # 0
  /\ sunPosition = getSunDirectionVector(Clock, latitude, longitude)
  /\ \A i \in 1 .. 3 : sunPosition[i] # 0

\* C25: getSolarNoon(date, lng) returns an instant within 24 hours of 12:00 UTC
\* on date's UTC day, for every date and longitude.
C25_SolarNoonWithinADay ==
  After("getSolarNoon") =>
    /\ Abs(returned.day - Clock \div MsPerDay) <= 2
    /\ Abs((returned.day - Clock \div MsPerDay) * MsPerDay + returned.ms - MsPerDay \div 2)
         <= MsPerDay

\* the surface materials with the map accessor: the base and its clones
SurfaceMaterials == { i \in 1 .. Len(materials) : materials[i].hasMap }

\* the uniform objects of material i that the map setter writes
ImageryCells(i) == { materials[i].uniforms.imageryTexture, materials[i].uniforms.useImagery }

\* C27: setting map on one surface material (the base or a clone) changes only
\* that material's imageryTexture and useImagery: every other uniform object, so
\* the imagery of the base and of every other clone, is unchanged; and a fresh
\* clone starts with no imagery whatever imagery the material it was cloned
\* from has.
C27_MapIsPerMaterial ==
  /\ AfterMaterial("map") =>
       /\ materials = LastMaterial.pre.materials
       /\ DOMAIN cells = DOMAIN LastMaterial.pre.cells
       /\ \A c \in DOMAIN cells :
            c \notin ImageryCells(LastMaterial.args[1]) => cells[c] = LastMaterial.pre.cells[c]
       /\ \A i \in SurfaceMaterials \ { LastMaterial.args[1] } :
            ImageryCells(i) \cap ImageryCells(LastMaterial.args[1]) = { }
       /\ Uniform(LastMaterial.args[1], "imageryTexture") = LastMaterial.args[2]
  /\ AfterMaterial("clone") =>
       /\ Uniform(Len(materials), "imageryTexture") = "null"
       /\ Uniform(Len(materials), "useImagery") = 0
       /\ \A c \in DOMAIN LastMaterial.pre.cells : cells[c] = LastMaterial.pre.cells[c]

\* map was set on a clone of a material that has imagery, to no imagery
C27_Witness ==
  /\ AfterMaterial("map")
  /\ LastMaterial.args[1] \in Clones
  /\ LastMaterial.args[2] = "null"
  /\ Uniform(materials[LastMaterial.args[1]].from, "imageryTexture") = "tile"
  /\ Uniform(materials[LastMaterial.args[1]].from, "useImagery") = 1

\* C28: in every state reachable through the map setter of the base or of a
\* clone, useImagery is 1 exactly when imageryTexture is a texture (neither null
\* nor undefined), and 0 otherwise.
C28_UseImageryFollowsTexture ==
  \A i \in SurfaceMaterials :
    /\ Uniform(i, "useImagery") \in { 0, 1 }
    /\ Uniform(i, "useImagery") = 1 <=>
         Uniform(i, "imageryTexture") \notin { "null", "undefined" }

\* map was set to a texture and then to null, on a clone
C28_Witness ==
  /\ AfterMaterial("map")
  /\ LastMaterial.args[1] \in Clones
  /\ LastMaterial.args[2] = "null"
  /\ LastMaterial.pre.cells[materials[LastMaterial.args[1]].uniforms.imageryTexture] = "tile"
  /\ Uniform(LastMaterial.args[1], "useImagery") = 0

\* C29: the controller's clock never aliases a Date object held by a caller:
\* after setDate(d) or updateSunPosition(d), setTimeOfDay and update do not
\* modify d, and a caller writing to d, or to the Date that getTimeInfo handed
\* out, does not change the controller's clock instant.
C29_ClockNeverAliased ==
  /\ callerDate # currentDate
  /\ ((After("setTimeOfDay") \/ After("update")) /\ Last.pre.callerTime # << >>) =>
       heap[callerDate] = Last.pre.callerTime[1]
  /\ After("callerSetTime") => Clock = Last.pre.clock

\* the three textures of a resolved call
TexturesOf(v) == [day |-> v.day, night |-> v.night, bumpRoughnessClouds |-> v.bumpRoughnessClouds]

\* a load of the call has failed
SomeLoadFailed == \E i \in 1 .. Len(settled) : settled[i][2] = "failed"

\* C30: under every order in which the three loads succeed or fail, the textures
\* loadEarthTexturesWithFallback returns are the three loaded textures or the
\* three fallback textures, never a mixture, and a load that completes after
\* another has failed does not change the result.
C30_NeverAMixture ==
  result.state = "resolved" =>
    /\ TexturesOf(result.value) \in { LoadedTextures(resolution), createFallbackTextures }
    /\ SomeLoadFailed => TexturesOf(result.value) = createFallbackTextures
    /\ ~SomeLoadFailed => TexturesOf(result.value) = LoadedTextures(resolution)

\* a load failed first and another one completed after it
C30_Witness ==
  /\ result.state = "resolved"
  /\ Len(settled) >= 2
  /\ settled[1][2] = "failed"
  /\ settled[2][2] = "loaded"
  /\ TexturesOf(result.value) = createFallbackTextures

====
